---------------------------- MODULE Spec2Model ----------------------------
(***************************************************************************)
(* Treasury Document Extractor: section division, position-aware pattern   *)
(* search, the four field extractors, layout detection, the pattern        *)
(* registry with its learning loop, and the document store.                *)
(*                                                                         *)
(* Sources: src/src/runComprehensiveTests.tsx (utils/layoutDetection and   *)
(* utils/extractors), src/unnamed/part_004 (services/TrainingService),     *)
(* src/src/components/ResultsTable.tsx (pattern management handlers),      *)
(* src/src/services/DocumentManager.ts, src/src/App.tsx.                   *)
(*                                                                         *)
(* Text is a sequence of lines taken from a vocabulary of real lines; the  *)
(* behaviour of every regular expression of the source on these lines is   *)
(* tabulated below.  Percentages are exact rationals [num, den]; for the   *)
(* section counts used here the double-precision values of the source      *)
(* compare with 0, 30, 40, 50, 70 and 100 exactly as the rationals do.     *)
(***************************************************************************)
EXTENDS Integers, Sequences, FiniteSets, TLC

VARIABLES
    text,               \* the raw document text, as its sequence of lines
    sectionCount,       \* second argument of divideDocumentIntoSections
    sections,           \* DocumentSection[] returned by the last division
    divideOutcome,      \* "none" | "returned" | "threw"
    positions,          \* <<name, amount, iban, service>> given to detectFormLayout
    layoutResult,       \* {layout, confidence} returned by detectFormLayout
    extractionPatterns, \* db.extractionPatterns: the persisted patterns, in id order
    trainingExamples,   \* db.trainingExamples: number of stored examples
    correctionHistory,  \* db.correctionHistory: the stored correction records
    nextId,             \* next auto-incremented id of db.extractionPatterns
    initialized,        \* TrainingService.initialized
    patternRegistry,    \* TrainingService.patternRegistry: field type -> RegExp[]
    loading,            \* the loadPatternRegistry call that awaits its query, if any
    initializing,       \* the initialize() calls in flight: caller -> where the call awaits
    documentDb,         \* the database of DocumentManager: documents and extractionResults
    documentCache,      \* DocumentManager.documentCache: id -> File
    extracted,          \* what the last processDocumentText call gave its caller
    lastCall            \* the operation that ran last, with its inputs

divideVars == <<text, sectionCount, sections, divideOutcome>>
layoutVars == <<positions, layoutResult>>
storeVars == <<extractionPatterns, trainingExamples, correctionHistory, nextId, documentDb>>
serviceVars == <<initialized, patternRegistry, loading, initializing, documentCache>>
vars == <<text, sectionCount, sections, divideOutcome, positions, layoutResult,
          extractionPatterns, trainingExamples, correctionHistory, nextId,
          initialized, patternRegistry, loading, initializing, documentDb, documentCache,
          extracted, lastCall>>

---------------------------------------------------------------------------
(* Bounds *)

MaxLines == 4
MaxSectionCount == 4
\* corrections recorded in one run of the registry model
MaxCorrections == 2
\* patterns stored in one run of the registry model
MaxPatterns == 13
\* patterns a persisted store holds when the service starts
MaxStored == 3
\* distinct values of Date.now() at the calls that store a document
MaxClock == 2

---------------------------------------------------------------------------
(* Line vocabulary *)

BLANK    == ""
HDR      == "CUSTOMER INFORMATION"
NAME_MR  == "Name: MR. Mohammed Al Motaeri"
BARE     == "Ahmed Hassan"
OFFICE   == "Office Use Only"
SIG_NAME == "Manager Name: Karim Abu Taha"
SIG_BARE == "Karim Abu Taha"
AMOUNT   == "Refund Amount: SAR 379.50"
IBAN     == "IBAN Number: SA0380000000608010167519"
SERVICE  == "Service Number: FTTH00516134"
NAME_LBL == "Name:"
AMT_LBL  == "Amount:"
AMT_BARE == "379.50"
\* a line that occurs only in correction contexts
BENEF    == "Beneficiary: Mohammed Al Motaeri"

DivideLines == {BLANK, HDR, NAME_MR, OFFICE, SIG_NAME}

Abs(x) == IF x < 0 THEN -x ELSE x
Max(a, b) == IF a >= b THEN a ELSE b
Min(a, b) == IF a <= b THEN a ELSE b

\* all sequences over S of length 0..n
RECURSIVE SeqsUpTo(_, _)
SeqsUpTo(S, n) ==
    IF n = 0 THEN {<<>>}
    ELSE LET shorter == SeqsUpTo(S, n - 1)
         IN  shorter \cup {Append(s, x) : s \in {t \in shorter : Len(t) = n - 1}, x \in S}

---------------------------------------------------------------------------
(* Regular expressions of the source on sequences of vocabulary lines.      *)
(* A content is the sequence of its lines (joined by "\n" in the source).   *)
(* A captured value is the sequence of the line fragments it spans, after   *)
(* String.prototype.trim; hit says that the capture group is a non-empty    *)
(* string (match && match[1]).                                              *)

NoMatch == [hit |-> FALSE, value |-> <<>>]
Hit(value) == [hit |-> TRUE, value |-> value]

\* the line consists of characters of [A-Za-z\s.'-] only
AllCH(line) == line \in {BLANK, HDR, BARE, OFFICE, SIG_BARE}

\* the longest prefix of the line made of characters of [A-Za-z\s.'-]
CHPrefix(line) ==
    CASE line = NAME_MR -> "Name"
      [] line = NAME_LBL -> "Name"
      [] line = SIG_NAME -> "Manager Name"
      [] line = AMOUNT -> "Refund Amount"
      [] line = AMT_LBL -> "Amount"
      [] line = IBAN -> "IBAN Number"
      [] line = SERVICE -> "Service Number"
      [] OTHER -> IF AllCH(line) THEN line ELSE ""

\* what a greedy [A-Za-z\s.'-]+ takes from line k onwards, having consumed line k - 1
RECURSIVE Absorb(_, _)
Absorb(lines, k) ==
    IF k > Len(lines) THEN <<>>
    ELSE IF AllCH(lines[k]) THEN <<lines[k]>> \o Absorb(lines, k + 1)
    ELSE <<CHPrefix(lines[k])>>

\* String.prototype.trim on a sequence of fragments
RECURSIVE Trim(_)
Trim(frags) ==
    IF frags = <<>> THEN <<>>
    ELSE IF Head(frags) = "" THEN Trim(Tail(frags))
    ELSE IF frags[Len(frags)] = "" THEN Trim(SubSeq(frags, 1, Len(frags) - 1))
    ELSE frags

\* a capture ([A-Za-z\s.'-]+) that starts in line k with head and runs on
OpenCapture(lines, k, head) ==
    IF head # "" \/ k < Len(lines)
    THEN Hit(Trim(<<head>> \o Absorb(lines, k + 1)))
    ELSE NoMatch

\* text that follows name\s*[:\.\s]* in a line holding a name label
NameLabelHead(line) ==
    CASE line = NAME_MR -> "MR. Mohammed Al Motaeri"
      [] line = SIG_NAME -> "Karim Abu Taha"
      [] line = NAME_LBL -> ""
\* the lines /name\s*[:\.\s]/i matches
NameLabelLines == {NAME_MR, SIG_NAME, NAME_LBL}

\* number of characters of lines[a..b], each followed by its "\n"
RECURSIVE CharsOf(_, _, _)
CharsOf(lines, a, b) ==
    IF a > b THEN 0 ELSE Len(lines[a]) + 1 + CharsOf(lines, a + 1, b)

\* lead[\s\S]{0,gap}target: the target lines reachable from the lead at line k, where
\* tail characters of line k follow the lead
GapTargets(lines, k, tail, gap, targets, offset) ==
    {j \in (k + 1)..Len(lines) :
        /\ lines[j] \in targets
        /\ tail + 1 + CharsOf(lines, k + 1, j - 1) + offset[lines[j]] <= gap}

SetMax(S) == CHOOSE x \in S : \A y \in S : y <= x
SetMin(S) == CHOOSE x \in S : \A y \in S : x <= y

\* the name labels inside the gap after the lead at line k from which a capture starts
\* (the function gives the offset of "name" in each line holding a name label)
GapNameTargets(lines, k, tail, gap) ==
    {j \in GapTargets(lines, k, tail, gap, NameLabelLines,
                    [line \in NameLabelLines |-> IF line = SIG_NAME THEN 8 ELSE 0]) :
        OpenCapture(lines, j, NameLabelHead(lines[j])).hit}

\* lead[\s\S]{0,gap}name\s*[:\.\s]*([A-Za-z\s.'-]+): the leftmost lead, then the
\* farthest name label inside the gap (the gap is greedy)
GapNameCapture(lines, tail, gap) ==
    LET leads == {k \in 1..Len(lines) :
                    lines[k] = HDR /\ GapNameTargets(lines, k, tail, gap) # {}}
    IN  IF leads = {} THEN NoMatch
        ELSE LET k == SetMin(leads)
                 j == SetMax(GapNameTargets(lines, k, tail, gap))
             IN  OpenCapture(lines, j, NameLabelHead(lines[j]))

\* customer information[\s\S]{0,100}(FTTH\d+); "FTTH" is at offset 16 of the service line
GapFtthCapture(lines, gap) ==
    LET leads == {k \in 1..Len(lines) :
                    lines[k] = HDR /\ GapTargets(lines, k, 0, gap, {SERVICE},
                                  [line \in {SERVICE} |-> 16]) # {}}
    IN  IF leads = {} THEN NoMatch ELSE Hit(<<"FTTH00516134">>)

\* a pattern whose capture starts in the line that holds its label: heads gives, for
\* each line with the label, the captured text of that line; the leftmost such line wins
InlineNameCapture(lines, heads, labelLines) ==
    LET at == {k \in 1..Len(lines) :
                 lines[k] \in labelLines /\ OpenCapture(lines, k, heads[lines[k]]).hit}
    IN  IF at = {} THEN NoMatch
        ELSE OpenCapture(lines, SetMin(at), heads[lines[SetMin(at)]])

\* the first line after k that is not blank, or 0
NextNonBlank(lines, k) ==
    LET after == {j \in (k + 1)..Len(lines) : lines[j] # BLANK}
    IN  IF after = {} THEN 0 ELSE SetMin(after)

\* amount\s*:\s*(?:SAR|SR|...)?\s*([0-9,.]+): the label and the number in one line, or
\* the label at the end of a line and the number at the start of the next non-blank line
AmountLabelCapture(lines, inlineLines, labelOnlyLines) ==
    LET at == {k \in 1..Len(lines) :
                 \/ lines[k] \in inlineLines
                 \/ /\ lines[k] \in labelOnlyLines
                    /\ NextNonBlank(lines, k) # 0
                    /\ lines[NextNonBlank(lines, k)] = AMT_BARE}
    IN  IF at = {} THEN NoMatch ELSE Hit(<<"379.50">>)

\* a pattern with a closed capture that lies in one line
InlineCapture(lines, matching, value) ==
    IF \E k \in 1..Len(lines) : lines[k] \in matching THEN Hit(<<value>>) ELSE NoMatch

---------------------------------------------------------------------------
(* The patterns: a compiled pattern is [source, flags]; Capture gives match[1] *)

CH == "([A-Za-z\\s.'-]+)"
\* the two Arabic alternatives are written with their code points
CUR == "(?:SAR|SR|\\u0631.\\u0633.|\\uFDFC)"

\* new RegExp(source, flags): the pattern, or null when the source is not a valid
\* regular expression
InvalidSources == {"(FTTH\\d+"}
Null == [source |-> "null", flags |-> "null"]
RegExp(source, flags) ==
    IF source \in InvalidSources THEN Null ELSE [source |-> source, flags |-> flags]

\* the patterns the extractors append to the trained ones (utils/extractors)
builtinNamePatterns ==
    <<RegExp("customer information[\\s\\S]{0,50}name\\s*[:\\.\\s]*" \o CH, "i"),
      RegExp("MR\\s*\\.\\s*" \o CH, "i"),
      RegExp("(MR\\s*\\.)?\\s*" \o CH \o "\\s+(?:Al|El)\\s+" \o CH, "i"),
      RegExp("customer[\\s\\S]{0,50}name\\s*[:\\.\\s]*" \o CH, "i"),
      RegExp("customer\\s*name\\s*:\\s*" \o CH, "i"),
      RegExp("name\\s*:\\s*" \o CH, "i"),
      RegExp("client\\s*:\\s*" \o CH, "i"),
      RegExp("applicant\\s*:\\s*" \o CH, "i"),
      RegExp("recipient\\s*:\\s*" \o CH, "i"),
      RegExp("account\\s*holder\\s*:\\s*" \o CH, "i")>>
builtinAmountPatterns ==
    <<RegExp("refund\\s*amount\\s*:\\s*" \o CUR \o "?\\s*([0-9,.]+)", "i"),
      RegExp("amount\\s*:\\s*" \o CUR \o "?\\s*([0-9,.]+)", "i"),
      RegExp("total\\s*:\\s*" \o CUR \o "?\\s*([0-9,.]+)", "i"),
      RegExp("payment\\s*amount\\s*:\\s*" \o CUR \o "?\\s*([0-9,.]+)", "i"),
      RegExp(CUR \o "\\s*([0-9,.]+)", "i"),
      RegExp("([0-9,.]+)\\s*" \o CUR, "i")>>
builtinIbanPatterns ==
    <<RegExp("iban\\s*:\\s*(SA\\d{22})", "i"),
      RegExp("iban\\s*number\\s*:\\s*(SA\\d{22})", "i"),
      RegExp("bank\\s*account\\s*:\\s*(SA\\d{22})", "i"),
      RegExp("account\\s*number\\s*:\\s*(SA\\d{22})", "i"),
      RegExp("(SA\\d{22})", "i")>>
builtinServicePatterns ==
    <<RegExp("customer information[\\s\\S]{0,100}(FTTH\\d+)", "i"),
      RegExp("service\\s*number\\s*:\\s*(FTTH\\d+)", "i"),
      RegExp("customer\\s*service\\s*number\\s*:\\s*(FTTH\\d+)", "i"),
      RegExp("customer\\s*id\\s*:\\s*(FTTH\\d+)", "i"),
      RegExp("reference\\s*number\\s*:\\s*(FTTH\\d+)", "i"),
      RegExp("reference\\s*:\\s*(FTTH\\d+)", "i"),
      RegExp("(FTTH\\d+)", "i")>>

FieldTypes == {"customerName", "refundAmount", "ibanNumber", "customerServiceNumber"}

\* success rates are kept in units of 1/RateScale; a rate is multiplied by 0.9 at most
\* once per recorded correction, so every rate of the model is represented exactly
RateScale == 10 ^ MaxCorrections

ExtractionPattern(fieldType, patternRegex, priority, successRate, usageCount) ==
    [fieldType |-> fieldType, patternRegex |-> patternRegex, priority |-> priority,
     successRate |-> successRate * RateScale, usageCount |-> usageCount]

\* number of seeded training examples
initialTrainingData == 4

\* patterns seeded by initialize (services/TrainingService)
initialExtractionPatterns ==
    <<ExtractionPattern("customerName", "customer\\s*name\\s*:\\s*" \o CH, 1, 95, 10),
      ExtractionPattern("customerName", "name\\s*:\\s*" \o CH, 2, 90, 15),
      ExtractionPattern("refundAmount",
                        "refund\\s*amount\\s*:\\s*" \o CUR \o "?\\s*([0-9,.]+)", 1, 92, 12),
      ExtractionPattern("ibanNumber", "iban\\s*:\\s*(SA\\d{22})", 1, 98, 14),
      ExtractionPattern("customerServiceNumber", "service\\s*number\\s*:\\s*(FTTH\\d+)", 1, 94, 8)>>

\* the four patterns ensureTreasuryPatterns stores
treasuryPatterns ==
    <<ExtractionPattern("customerName", "MR\\s*\\.\\s*" \o CH, 1, 95, 5),
      ExtractionPattern("customerName",
                        "customer\\s*information[\\s\\S]{0,50}name\\s*[:\\.\\s]*" \o CH, 2, 90, 5),
      ExtractionPattern("customerName", CH \o "\\s+(?:Al|El)\\s+" \o CH, 3, 85, 5),
      ExtractionPattern("customerName",
                        "name[\\s\\u0600-\\u06FF]*(?:\\s*[:\\.\\s]\\s*)((?:[A-Za-z\\s.'-]+\\s*)+)",
                        1, 95, 5)>>

\* the string ensureTreasuryPatterns looks up: every backslash of the stored pattern is
\* doubled in it
TreasuryProbe == "MR\\\\s*\\\\.\\\\s*([A-Za-z\\\\s.\\'-]+)"

\* the escaped, trimmed text before the value in a context line; "" when the line does
\* not include the value or nothing but blanks precedes it
PatternWord(line, correctValue) ==
    CASE line = NAME_MR /\ correctValue = "Mohammed Al Motaeri" -> "Name: MR\\."
      [] line = BENEF /\ correctValue = "Mohammed Al Motaeri" -> "Beneficiary:"
      [] line = SERVICE /\ correctValue = "FTTH00516134" -> "Service Number:"
      [] OTHER -> ""

CaptureGroup(fieldType) ==
    CASE fieldType = "customerName" -> "\\s*" \o CH
      [] fieldType = "refundAmount" -> "\\s*" \o CUR \o "?\\s*([0-9,.]+)"
      [] fieldType = "ibanNumber" -> "\\s*(SA\\d{22})"
      [] fieldType = "customerServiceNumber" -> "\\s*(FTTH\\d+)"

\* content.match(pattern)[1] for a pattern compiled with the flag i
Capture(pattern, lines) ==
    LET src == pattern.source
        N(k) == builtinNamePatterns[k].source
        A(k) == builtinAmountPatterns[k].source
        I(k) == builtinIbanPatterns[k].source
        V(k) == builtinServicePatterns[k].source
        T(k) == treasuryPatterns[k].patternRegex
        L(line, value, fieldType) == PatternWord(line, value) \o CaptureGroup(fieldType)
    IN  CASE src \in {N(1), T(2)} -> GapNameCapture(lines, 0, 50)
          [] src = N(4) -> GapNameCapture(lines, 12, 50)
          [] src \in {N(2), L(NAME_MR, "Mohammed Al Motaeri", "customerName")} ->
                InlineNameCapture(lines, [l \in {NAME_MR} |-> "Mohammed Al Motaeri"], {NAME_MR})
          [] src \in {N(6), T(4)} ->
                InlineNameCapture(lines, [l \in NameLabelLines |-> NameLabelHead(l)],
                                  NameLabelLines)
          [] src = T(3) -> InlineCapture(lines, {NAME_MR}, "MR. Mohammed")
          [] src \in {A(1), A(5)} -> InlineCapture(lines, {AMOUNT}, "379.50")
          [] src = A(2) -> AmountLabelCapture(lines, {AMOUNT}, {AMT_LBL})
          [] src \in {I(2), I(5)} -> InlineCapture(lines, {IBAN}, "SA0380000000608010167519")
          [] src = V(1) -> GapFtthCapture(lines, 100)
          [] src \in {V(2), V(7), L(SERVICE, "FTTH00516134", "customerServiceNumber")} ->
                InlineCapture(lines, {SERVICE}, "FTTH00516134")
          [] OTHER -> NoMatch

---------------------------------------------------------------------------
(* Section divider: utils/layoutDetection *)

\* some line of the content is in the set of lines a regular expression matches
TestAny(content, matching) == \E k \in 1..Len(content) : content[k] \in matching

\* customerHeaderPatterns: /CUSTOMER INFORMATION/i, /Customer Details/i, /CLIENT DETAILS/i
customerHeaderPatterns == {HDR}
\* customerKeywords: /customer information/i, /customer info/i, ..., /customer/i
customerKeywords == {HDR}
\* /MR\s*\./i, /phone/i, /FTTH/i
MrPhoneFtthLines == {NAME_MR, SERVICE}
\* signatureKeywords: /office use only/i, /signature/i, /sign/i, /office/i, ...
signatureKeywords == {OFFICE}
\* (/Manager/i && /Name/i) || /Director/i || /Signature:/i || (/Date:/i && /Sign/i)
ManagerLines == {SIG_NAME}
NameWordLines == {NAME_MR, SIG_NAME, NAME_LBL}

Pct(num, den) == [num |-> num, den |-> den]
\* r <= k, r >= k, r < k, r > k for a rational r and an integer k
PctLeq(r, k) == r.num <= k * r.den
PctGeq(r, k) == r.num >= k * r.den
PctLt(r, k) == r.num < k * r.den
PctGt(r, k) == r.num > k * r.den

\* lines.slice(startLine, endLine), for startLine, endLine >= 0
Slice(lines, startLine, endLine) ==
    IF Min(endLine, Len(lines)) <= startLine THEN <<>>
    ELSE SubSeq(lines, startLine + 1, Min(endLine, Len(lines)))

\* the last index of the set instead of the first
FirstIndex_Last(idxs, none) ==
    IF idxs # {}
    THEN CHOOSE i \in idxs : \A j \in idxs : i >= j
    ELSE none

\* smallest index of idxs, or none: the index at which a scanning loop returns
FirstIndex(idxs, none) ==
    IF idxs # {}
    THEN CHOOSE i \in idxs : \A j \in idxs : i <= j
    ELSE none

\* detectCustomerInfoSection without its default: -1 when no top section matches
detectCustomerInfoSection_NoDefault(secs) ==
    LET topSections == {i \in 1..Len(secs) : PctLeq(secs[i].endPercentage, 40)}
        header(i) == TestAny(secs[i].content, customerHeaderPatterns)
        keyword(i) == TestAny(secs[i].content, customerKeywords)
        fields(i) == /\ TestAny(secs[i].content, NameLabelLines)
                     /\ TestAny(secs[i].content, MrPhoneFtthLines)
        byHeader == FirstIndex({i \in topSections : header(i)}, 0)
        byKeyword == FirstIndex({i \in topSections : keyword(i)}, 0)
        byFields == FirstIndex({i \in topSections : fields(i)}, 0)
    IN  IF byHeader # 0 THEN byHeader - 1
        ELSE IF byKeyword # 0 THEN byKeyword - 1
        ELSE IF byFields # 0 THEN byFields - 1
        ELSE -1

\* returns a 0-based section index
detectCustomerInfoSection(secs) ==
    LET topSections == {i \in 1..Len(secs) : PctLeq(secs[i].endPercentage, 40)}
        header(i) == TestAny(secs[i].content, customerHeaderPatterns)
        keyword(i) == TestAny(secs[i].content, customerKeywords)
        fields(i) == /\ TestAny(secs[i].content, NameLabelLines)
                     /\ TestAny(secs[i].content, MrPhoneFtthLines)
        byHeader == FirstIndex({i \in topSections : header(i)}, 0)
        byKeyword == FirstIndex({i \in topSections : keyword(i)}, 0)
        byFields == FirstIndex({i \in topSections : fields(i)}, 0)
    IN  IF byHeader # 0 THEN byHeader - 1
        ELSE IF byKeyword # 0 THEN byKeyword - 1
        ELSE IF byFields # 0 THEN byFields - 1
        ELSE 0

\* detectSignatureSection scanning every section, not only the bottom half
detectSignatureSection_AllSections(secs) ==
    LET bottomSections == 1..Len(secs)
        keyword(i) == TestAny(secs[i].content, signatureKeywords)
        line(i) == /\ TestAny(secs[i].content, ManagerLines)
                   /\ TestAny(secs[i].content, NameWordLines)
        byKeyword == FirstIndex({i \in bottomSections : keyword(i)}, 0)
        byLine == FirstIndex({i \in bottomSections : line(i)}, 0)
    IN  IF byKeyword # 0 THEN byKeyword - 1
        ELSE IF byLine # 0 THEN byLine - 1
        ELSE -1

\* returns a 0-based section index, or -1
detectSignatureSection(secs) ==
    LET bottomSections == {i \in 1..Len(secs) : PctGeq(secs[i].startPercentage, 50)}
        keyword(i) == TestAny(secs[i].content, signatureKeywords)
        line(i) == /\ TestAny(secs[i].content, ManagerLines)
                   /\ TestAny(secs[i].content, NameWordLines)
        byKeyword == FirstIndex({i \in bottomSections : keyword(i)}, 0)
        byLine == FirstIndex({i \in bottomSections : line(i)}, 0)
    IN  IF byKeyword # 0 THEN byKeyword - 1
        ELSE IF byLine # 0 THEN byLine - 1
        ELSE -1

\* the loop started at i = 1
UntaggedSections_FromOne(lines, count) ==
    LET totalLines == Len(lines)
    IN  [k \in 1..(count - 1) |->
            LET i == k
                startLine == (i * totalLines) \div count
                endLine == ((i + 1) * totalLines) \div count
            IN  [startPercentage |-> Pct(i * 100, count),
                 endPercentage |-> Pct((i + 1) * 100, count),
                 content |-> Slice(lines, startLine, endLine),
                 isCustomerInfoSection |-> FALSE,
                 isSignatureSection |-> FALSE]]

\* the sections created by the loop, before tagging (section i is element i + 1)
UntaggedSections(lines, count) ==
    LET totalLines == Len(lines)
    IN  [k \in 1..count |->
            LET i == k - 1
                startLine == (i * totalLines) \div count
                endLine == ((i + 1) * totalLines) \div count
            IN  [startPercentage |-> Pct(i * 100, count),
                 endPercentage |-> Pct((i + 1) * 100, count),
                 content |-> Slice(lines, startLine, endLine),
                 isCustomerInfoSection |-> FALSE,
                 isSignatureSection |-> FALSE]]

\* sectionsArray[idx].isCustomerInfoSection = true throws when sectionsArray[idx] is undefined
divideThrows(lines, count) ==
    LET untagged == UntaggedSections(lines, count)
        customerInfoIndex == detectCustomerInfoSection(untagged)
    IN  customerInfoIndex >= 0 /\ customerInfoIndex + 1 > Len(untagged)

divideDocumentIntoSections(lines, count) ==
    LET untagged == UntaggedSections(lines, count)
        customerInfoIndex == detectCustomerInfoSection(untagged)
        withCustomer ==
            IF customerInfoIndex >= 0
            THEN [untagged EXCEPT ![customerInfoIndex + 1].isCustomerInfoSection = TRUE]
            ELSE untagged
        signatureIndex == detectSignatureSection(withCustomer)
    IN  IF signatureIndex >= 0
        THEN [withCustomer EXCEPT ![signatureIndex + 1].isSignatureSection = TRUE]
        ELSE withCustomer

---------------------------------------------------------------------------
(* Position-aware pattern search: utils/layoutDetection *)

\* the start of the section instead of its midpoint
Midpoint_Start(sec) == sec.startPercentage.num \div sec.startPercentage.den

\* (startPercentage + endPercentage) / 2; exact for the default section count of 10,
\* the only one the extraction pipeline uses
Midpoint(sec) ==
    (sec.startPercentage.num + sec.endPercentage.num) \div (2 * sec.startPercentage.den)

\* the (section, pattern) pairs of a band that yield a non-empty capture
HitPairs(secs, idxs, patterns) ==
    {pair \in idxs \X (1..Len(patterns)) :
        Capture(patterns[pair[2]], secs[pair[1]].content).hit}

\* the pair reached first when the patterns are the outer loop
FirstPair_PatternMajor(pairs) ==
    CHOOSE pair \in pairs :
        \A q \in pairs : pair[2] < q[2] \/ (pair[2] = q[2] /\ pair[1] <= q[1])

\* the pair the nested loops reach first: sections in index order, then patterns
FirstPair(pairs) ==
    CHOOSE pair \in pairs :
        \A q \in pairs : pair[1] < q[1] \/ (pair[1] = q[1] /\ pair[2] <= q[2])

\* sections.map(s => s.content).join('\n')
RECURSIVE CombinedContent(_, _)
CombinedContent(secs, k) ==
    IF k > Len(secs) THEN <<>>
    ELSE (IF secs[k].content = <<>> THEN <<BLANK>> ELSE secs[k].content)
         \o CombinedContent(secs, k + 1)

NotFound == [position |-> -1, hit |-> FALSE, match |-> <<>>, confidence |-> 0, sectionType |-> "none"]

\* BandResult without the base confidence of the band
BandResult_NoBase(secs, patterns, pairs, base, decay, sectionType) ==
    LET pair == FirstPair(pairs)
    IN  [position |-> Midpoint(secs[pair[1]]),
         hit |-> TRUE,
         match |-> Capture(patterns[pair[2]], secs[pair[1]].content).value,
         confidence |-> 30 - (pair[2] - 1) * decay,
         sectionType |-> sectionType]

BandResult(secs, patterns, pairs, base, decay, sectionType) ==
    LET pair == FirstPair(pairs)
    IN  [position |-> Midpoint(secs[pair[1]]),
         hit |-> TRUE,
         match |-> Capture(patterns[pair[2]], secs[pair[1]].content).value,
         confidence |-> base - (pair[2] - 1) * decay,
         sectionType |-> sectionType]

findPatternInSections(secs, patterns) ==
    LET all == 1..Len(secs)
        tagged == {i \in all : secs[i].isCustomerInfoSection}
        customerInfoSection == IF tagged = {} THEN {} ELSE {SetMin(tagged)}
        topSections == {i \in all : PctLeq(secs[i].endPercentage, 30) /\ ~secs[i].isSignatureSection}
        middleSections == {i \in all : /\ PctGt(secs[i].startPercentage, 30)
                                       /\ PctLt(secs[i].endPercentage, 70)
                                       /\ ~secs[i].isSignatureSection}
        nonSignatureSections == {i \in all : ~secs[i].isSignatureSection}
        signatureSections == {i \in all : secs[i].isSignatureSection}
        inCustomer == HitPairs(secs, customerInfoSection, patterns)
        inTop == HitPairs(secs, topSections, patterns)
        inMiddle == HitPairs(secs, middleSections, patterns)
        inNonSignature == HitPairs(secs, nonSignatureSections, patterns)
        inSignature == HitPairs(secs, signatureSections, patterns)
        combinedContent == CombinedContent(secs, 1)
        inCombined == {k \in 1..Len(patterns) : Capture(patterns[k], combinedContent).hit}
    IN  IF inCustomer # {} THEN BandResult(secs, patterns, inCustomer, 95, 5, "customerInfo")
        ELSE IF inTop # {} THEN BandResult(secs, patterns, inTop, 90, 5, "top")
        ELSE IF inMiddle # {} THEN BandResult(secs, patterns, inMiddle, 80, 5, "middle")
        ELSE IF inNonSignature # {} THEN BandResult(secs, patterns, inNonSignature, 75, 7, "none")
        ELSE IF inSignature # {} THEN BandResult(secs, patterns, inSignature, 30, 5, "signature")
        ELSE IF inCombined # {}
        THEN [position |-> 50,
              hit |-> TRUE,
              match |-> Capture(patterns[SetMin(inCombined)], combinedContent).value,
              confidence |-> 45 - (SetMin(inCombined) - 1) * 5,
              sectionType |-> "none"]
        ELSE NotFound

---------------------------------------------------------------------------
(* Regular expressions local to the extractors: utils/extractors *)

\* titlePattern, group 2: the text after MR. in a line holding the title
TitleCapture(lines) ==
    InlineNameCapture(lines, [l \in {NAME_MR} |-> "Mohammed Al Motaeri"], {NAME_MR})

\* treasuryNamePattern, group 1
TreasuryNameCapture(lines) ==
    InlineNameCapture(lines, [l \in NameLabelLines |-> NameLabelHead(l)], NameLabelLines)

\* a line as the words [A-Z][a-z]+ it holds; "|" stands for anything that ends a run of
\* such words separated by one white-space character
LineTokens(line) ==
    CASE line = NAME_MR -> <<"Name", "|", "Mohammed", "Al", "Motaeri">>
      [] line = BARE -> <<"Ahmed", "Hassan">>
      [] line = OFFICE -> <<"Office", "Use", "Only">>
      [] line = SIG_NAME -> <<"Manager", "Name", "|", "Karim", "Abu", "Taha">>
      [] line = SIG_BARE -> <<"Karim", "Abu", "Taha">>
      [] line = AMOUNT -> <<"Refund", "Amount", "|">>
      [] line = IBAN -> <<"|", "Number", "|">>
      [] line = SERVICE -> <<"Service", "Number", "|">>
      [] line = NAME_LBL -> <<"Name", "|">>
      [] line = AMT_LBL -> <<"Amount", "|">>
      [] OTHER -> <<"|">>

RECURSIVE ContentTokens(_, _)
ContentTokens(lines, k) ==
    IF k > Len(lines) THEN <<>>
    ELSE [i \in 1..Len(LineTokens(lines[k])) |-> [w |-> LineTokens(lines[k])[i], ln |-> k]]
         \o ContentTokens(lines, k + 1)

\* the words of toks[a..b] that lie in line ln, joined by blanks
RECURSIVE JoinWords(_, _, _, _)
JoinWords(toks, a, b, ln) ==
    IF a > b THEN ""
    ELSE IF toks[a].ln # ln THEN JoinWords(toks, a + 1, b, ln)
    ELSE LET rest == JoinWords(toks, a + 1, b, ln)
         IN  IF rest = "" THEN toks[a].w ELSE toks[a].w \o " " \o rest

\* nameRegex (case-sensitive): the leftmost run of two or more capitalised words
NameRegexCapture(lines) ==
    LET toks == ContentTokens(lines, 1)
        n == Len(toks)
        starts == {i \in 1..n : /\ toks[i].w # "|"
                                /\ (i = 1 \/ toks[i - 1].w = "|")
                                /\ i < n
                                /\ toks[i + 1].w # "|"}
    IN  IF starts = {} THEN NoMatch
        ELSE LET a == SetMin(starts)
                 b == SetMax({j \in a..n : \A i \in a..j : toks[i].w # "|"})
             IN  Hit([q \in 1..(toks[b].ln - toks[a].ln + 1) |->
                        JoinWords(toks, a, b, toks[a].ln + q - 1)])

\* /([0-9]+(\.[0-9]{2})?)/: the first number of the content
NumberCapture(lines) ==
    LET FirstNumber(line) == CASE line \in {AMOUNT, AMT_BARE} -> "379.50"
                               [] line = IBAN -> "0380000000608010167519"
                               [] line = SERVICE -> "00516134"
                               [] OTHER -> ""
        at == {k \in 1..Len(lines) : FirstNumber(lines[k]) # ""}
    IN  IF at = {} THEN NoMatch ELSE Hit(<<FirstNumber(lines[SetMin(at)])>>)

\* sections.find(s => s.content.includes(value)) for a single-line value: the index of
\* that section, or 0
SectionIncluding(secs, value) ==
    LET linesIncluding == CASE value = <<"379.50">> -> {AMOUNT, AMT_BARE}
                            [] value = <<"SA0380000000608010167519">> -> {IBAN}
                            [] value = <<"FTTH00516134">> -> {SERVICE}
                            [] OTHER -> {}
        at == {i \in 1..Len(secs) : TestAny(secs[i].content, linesIncluding)}
    IN  IF at = {} THEN 0 ELSE SetMin(at)

\* number of characters of a value
RECURSIVE ValueLength(_)
ValueLength(value) ==
    IF value = <<>> THEN 0
    ELSE Len(Head(value)) + (IF Len(value) > 1 THEN 1 ELSE 0) + ValueLength(Tail(value))

\* number of words of a fragment made only of capitalised words separated by one blank
CapWords(frag) ==
    CASE frag \in {"Name", "Amount"} -> 1
      [] frag \in {"Ahmed Hassan", "Manager Name", "Refund Amount", "Service Number"} -> 2
      [] frag \in {"Mohammed Al Motaeri", "Karim Abu Taha", "Office Use Only"} -> 3
      [] OTHER -> 0
RECURSIVE SumCapWords(_)
SumCapWords(value) ==
    IF value = <<>> THEN 0 ELSE CapWords(Head(value)) + SumCapWords(Tail(value))

\* /^[A-Z][a-z]+(\s[A-Z][a-z]+)+$/
ProperNameShape(value) ==
    /\ \A q \in 1..Len(value) : CapWords(value[q]) > 0
    /\ SumCapWords(value) >= 2

\* /\b(Al|El)\b/i
HasAlEl(value) ==
    \E q \in 1..Len(value) : value[q] \in {"Mohammed Al Motaeri", "MR. Mohammed Al Motaeri"}

---------------------------------------------------------------------------
(* Field extractors: utils/extractors.  trainedPatterns is what                *)
(* trainingService.getPatterns returns to the extractor.                        *)

Extracted(value, confidence, position) ==
    [value |-> value, confidence |-> confidence, position |-> position]

\* one of the three section loops of extractCustomerName: the first section of idxs in
\* which the title pattern (if tried) or a name pattern yields a capture
NameLoopHits(secs, idxs, namePatterns) ==
    {i \in idxs : \/ TitleCapture(secs[i].content).hit
                  \/ HitPairs(secs, {i}, namePatterns) # {}}

NameLoopResult(secs, idxs, namePatterns, titleConfidence, patternConfidence) ==
    LET i == SetMin(NameLoopHits(secs, idxs, namePatterns))
        content == secs[i].content
    IN  IF TitleCapture(content).hit
        THEN Extracted(TitleCapture(content).value, titleConfidence, Midpoint(secs[i]))
        ELSE LET pair == FirstPair(HitPairs(secs, {i}, namePatterns))
             IN  Extracted(Capture(namePatterns[pair[2]], content).value, patternConfidence,
                           Midpoint(secs[i]))

\* the last resort of extractCustomerName: something shaped like a name in a section
\* that is not the signature section
NameFallback(secs) ==
    LET at == {i \in 1..Len(secs) : /\ ~secs[i].isSignatureSection
                                    /\ NameRegexCapture(secs[i].content).hit}
    IN  IF at = {} THEN Extracted(<<"Unknown">>, 0, -1)
        ELSE LET i == SetMin(at)
             IN  Extracted(NameRegexCapture(secs[i].content).value,
                           IF secs[i].isCustomerInfoSection THEN 80
                           ELSE IF PctLeq(secs[i].endPercentage, 30) THEN 70
                           ELSE 60,
                           Midpoint(secs[i]))

\* extractCustomerName after findPatternInSections, trusting the signature sections as
\* it trusts the customer-info section: no reduction by 50 and no cap at 40
NameFromSearch_Trusting(secs, result) ==
    LET name == result.match
        c0 == result.confidence
        c1 == CASE result.sectionType \in {"customerInfo", "signature"} -> c0 + 15
                [] result.sectionType = "top" -> c0 + 10
                [] OTHER -> c0
        c2 == IF ValueLength(name) > 3 /\ ValueLength(name) < 50 THEN c1 + 5 ELSE c1
        c3 == IF ProperNameShape(name) THEN c2 + 5 ELSE c2
        c4 == IF HasAlEl(name) THEN c3 + 8 ELSE c3
    IN  IF result.hit THEN Extracted(name, Min(c4, 100), result.position)
        ELSE NameFallback(secs)

\* extractCustomerName after findPatternInSections returned result
NameFromSearch(secs, result) ==
    LET name == result.match
        c0 == result.confidence
        c1 == CASE result.sectionType = "customerInfo" -> c0 + 15
                [] result.sectionType = "top" -> c0 + 10
                [] result.sectionType = "signature" -> c0 - 50
                [] OTHER -> c0
        c2 == IF ValueLength(name) > 3 /\ ValueLength(name) < 50 THEN c1 + 5 ELSE c1
        c3 == IF ProperNameShape(name) THEN c2 + 5 ELSE c2
        c4 == IF HasAlEl(name) THEN c3 + 8 ELSE c3
        c5 == IF result.sectionType = "signature" THEN Min(c4, 40) ELSE c4
    IN  IF result.hit THEN Extracted(name, Min(c5, 100), result.position)
        ELSE NameFallback(secs)

extractCustomerName(secs, trainedPatterns) ==
    LET namePatterns == trainedPatterns \o builtinNamePatterns
        all == 1..Len(secs)
        tagged == {i \in all : secs[i].isCustomerInfoSection}
        topSections == {i \in all : PctLeq(secs[i].endPercentage, 30) /\ ~secs[i].isSignatureSection}
        topSectionsWithNameField ==
            {i \in topSections : \/ TestAny(secs[i].content, NameLabelLines)
                                 \/ TestAny(secs[i].content, {NAME_MR})      \* /MR\s*\./i
                                 \/ TestAny(secs[i].content, {HDR})}         \* /customer/i
        ci == SetMin(tagged)
    IN  IF tagged # {} /\ TreasuryNameCapture(secs[ci].content).hit
        THEN Extracted(TreasuryNameCapture(secs[ci].content).value, 98, Midpoint(secs[ci]))
        ELSE IF tagged # {} /\ NameLoopHits(secs, {ci}, namePatterns) # {}
        THEN NameLoopResult(secs, {ci}, namePatterns, 98, 95)
        ELSE IF NameLoopHits(secs, topSectionsWithNameField, namePatterns) # {}
        THEN NameLoopResult(secs, topSectionsWithNameField, namePatterns, 95, 90)
        ELSE IF NameLoopHits(secs, topSections, namePatterns) # {}
        THEN NameLoopResult(secs, topSections, namePatterns, 85, 80)
        ELSE NameFromSearch(secs, findPatternInSections(secs, namePatterns))

\* extractRefundAmount after findPatternInSections returned result
RefundAmountFrom(secs, result) ==
    LET amount == result.match
        sectionWithAmount == SectionIncluding(secs, amount)
        \* the lines that include refund, and those that include amount, payment, total,
        \* sum, sar or refund
        refundLines == {AMOUNT}
        currencyContextLines == {AMOUNT, AMT_LBL}
        c1 == IF sectionWithAmount # 0 /\ TestAny(secs[sectionWithAmount].content, refundLines)
              THEN result.confidence + 5 ELSE result.confidence
        c2 == IF amount = <<"379.50">> THEN c1 + 5 ELSE c1
        at == {i \in 1..Len(secs) : NumberCapture(secs[i].content).hit}
    IN  IF result.hit THEN Extracted(amount, Min(c2, 100), result.position)
        ELSE IF at # {}
        THEN Extracted(NumberCapture(secs[SetMin(at)].content).value,
                       IF TestAny(secs[SetMin(at)].content, currencyContextLines) THEN 60 ELSE 40,
                       Midpoint(secs[SetMin(at)]))
        ELSE Extracted(<<"0.00">>, 0, -1)

extractRefundAmount(secs, trainedPatterns) ==
    RefundAmountFrom(secs, findPatternInSections(secs, trainedPatterns \o builtinAmountPatterns))

\* extractIBAN after findPatternInSections, with position 0 in its not-found result
IBANFrom_SentinelAtZero(secs, result) ==
    LET iban == result.match
        sectionWithIban == SectionIncluding(secs, iban)
        \* the lines that include iban or bank
        bankLines == {IBAN}
        c1 == IF sectionWithIban # 0 /\ TestAny(secs[sectionWithIban].content, bankLines)
              THEN result.confidence + 5 ELSE result.confidence
        c2 == IF iban = <<"SA0380000000608010167519">> THEN c1 + 5 ELSE c1
        at == {i \in 1..Len(secs) : TestAny(secs[i].content, {IBAN})}
    IN  IF result.hit THEN Extracted(iban, Min(c2, 100), result.position)
        ELSE IF at # {}
        THEN Extracted(<<"SA0380000000608010167519">>, 60, Midpoint(secs[SetMin(at)]))
        ELSE Extracted(<<"Unknown">>, 0, 0)

\* extractIBAN after findPatternInSections returned result; the last resort is
\* /(SA\d{10,})/i
IBANFrom(secs, result) ==
    LET iban == result.match
        sectionWithIban == SectionIncluding(secs, iban)
        \* the lines that include iban or bank
        bankLines == {IBAN}
        c1 == IF sectionWithIban # 0 /\ TestAny(secs[sectionWithIban].content, bankLines)
              THEN result.confidence + 5 ELSE result.confidence
        c2 == IF iban = <<"SA0380000000608010167519">> THEN c1 + 5 ELSE c1
        at == {i \in 1..Len(secs) : TestAny(secs[i].content, {IBAN})}
    IN  IF result.hit THEN Extracted(iban, Min(c2, 100), result.position)
        ELSE IF at # {}
        THEN Extracted(<<"SA0380000000608010167519">>, 60, Midpoint(secs[SetMin(at)]))
        ELSE Extracted(<<"Unknown">>, 0, -1)

extractIBAN(secs, trainedPatterns) ==
    IBANFrom(secs, findPatternInSections(secs, trainedPatterns \o builtinIbanPatterns))

\* extractServiceNumber after findPatternInSections returned result; the last resort is
\* /(FTTH\d+)/i
ServiceNumberFrom(secs, result) ==
    LET serviceNumber == result.match
        sectionWithService == SectionIncluding(secs, serviceNumber)
        \* the lines that include service or customer id
        serviceLines == {SERVICE}
        c1 == IF sectionWithService # 0
                 /\ TestAny(secs[sectionWithService].content, serviceLines)
              THEN result.confidence + 5 ELSE result.confidence
        c2 == IF serviceNumber = <<"FTTH00516134">> THEN c1 + 5 ELSE c1
        c3 == IF result.sectionType = "customerInfo" THEN c2 + 10 ELSE c2
        at == {i \in 1..Len(secs) : TestAny(secs[i].content, {SERVICE})}
    IN  IF result.hit THEN Extracted(serviceNumber, Min(c3, 100), result.position)
        ELSE IF at # {}
        THEN Extracted(<<"FTTH00516134">>,
                       IF secs[SetMin(at)].isCustomerInfoSection THEN 85 ELSE 70,
                       Midpoint(secs[SetMin(at)]))
        ELSE Extracted(<<"Unknown">>, 0, -1)

extractServiceNumber(secs, trainedPatterns) ==
    ServiceNumberFrom(secs, findPatternInSections(secs, trainedPatterns \o builtinServicePatterns))

---------------------------------------------------------------------------
(* Layout detector: utils/layoutDetection *)

Expect(loc, tol) == [expectedLocation |-> loc, tolerance |-> tol]

formLayouts == <<
    [name |-> "Standard Layout", nameSection |-> Expect(15, 15), amountSection |-> Expect(35, 15),
     ibanSection |-> Expect(50, 20), serviceNumberSection |-> Expect(75, 20)],
    [name |-> "Compact Layout", nameSection |-> Expect(15, 10), amountSection |-> Expect(25, 10),
     ibanSection |-> Expect(35, 10), serviceNumberSection |-> Expect(45, 10)],
    [name |-> "Extended Layout", nameSection |-> Expect(10, 10), amountSection |-> Expect(40, 20),
     ibanSection |-> Expect(70, 20), serviceNumberSection |-> Expect(85, 15)],
    [name |-> "Reverse Layout", nameSection |-> Expect(15, 15), amountSection |-> Expect(40, 15),
     ibanSection |-> Expect(65, 15), serviceNumberSection |-> Expect(85, 15)],
    [name |-> "Treasury Form", nameSection |-> Expect(20, 10), amountSection |-> Expect(40, 15),
     ibanSection |-> Expect(60, 20), serviceNumberSection |-> Expect(25, 10)],
    [name |-> "SCTTR Form", nameSection |-> Expect(18, 8), amountSection |-> Expect(35, 12),
     ibanSection |-> Expect(65, 15), serviceNumberSection |-> Expect(18, 8)],
    [name |-> "Tabular Layout", nameSection |-> Expect(22, 12), amountSection |-> Expect(50, 18),
     ibanSection |-> Expect(70, 20), serviceNumberSection |-> Expect(22, 12)],
    [name |-> "Custom Layout", nameSection |-> Expect(20, 30), amountSection |-> Expect(40, 30),
     ibanSection |-> Expect(60, 30), serviceNumberSection |-> Expect(80, 30)] >>

\* scores and layout confidences are kept in units of 1/ScoreScale; every tolerance of
\* the catalog divides ScoreScale, so the scores of the source are represented exactly
ScoreScale == 360

\* 25 * Math.max(0, 1 - Math.abs(position - expectedLocation) / tolerance)
FieldScore(position, sec) ==
    25 * Max(0, sec.tolerance - Abs(position - sec.expectedLocation)) * (ScoreScale \div sec.tolerance)

\* the score without the early return on a missing position
calculateLayoutMatchScore_NoSkip(namePosition, amountPosition, ibanPosition, serviceNumberPosition, layout) ==
    FieldScore(namePosition, layout.nameSection)
    + FieldScore(amountPosition, layout.amountSection)
    + FieldScore(ibanPosition, layout.ibanSection)
    + FieldScore(serviceNumberPosition, layout.serviceNumberSection)

calculateLayoutMatchScore(namePosition, amountPosition, ibanPosition, serviceNumberPosition, layout) ==
    IF namePosition < 0 \/ amountPosition < 0 \/ ibanPosition < 0 \/ serviceNumberPosition < 0
    THEN 0
    ELSE FieldScore(namePosition, layout.nameSection)
         + FieldScore(amountPosition, layout.amountSection)
         + FieldScore(ibanPosition, layout.ibanSection)
         + FieldScore(serviceNumberPosition, layout.serviceNumberSection)

\* the loop over formLayouts with score >= highestScore: the last template wins a tie
RECURSIVE BestLayout_LastOnTies(_, _, _, _, _)
BestLayout_LastOnTies(k, namePosition, amountPosition, ibanPosition, serviceNumberPosition) ==
    IF k = 0 THEN [bestMatch |-> formLayouts[1], highestScore |-> 0]
    ELSE LET prev == BestLayout_LastOnTies(k - 1, namePosition, amountPosition, ibanPosition,
                                           serviceNumberPosition)
             score == calculateLayoutMatchScore(namePosition, amountPosition, ibanPosition,
                                                serviceNumberPosition, formLayouts[k])
         IN  IF score >= prev.highestScore
             THEN [bestMatch |-> formLayouts[k], highestScore |-> score]
             ELSE prev

\* the loop over formLayouts: state after the first k templates
RECURSIVE BestLayout(_, _, _, _, _)
BestLayout(k, namePosition, amountPosition, ibanPosition, serviceNumberPosition) ==
    IF k = 0 THEN [bestMatch |-> formLayouts[1], highestScore |-> 0]
    ELSE LET prev == BestLayout(k - 1, namePosition, amountPosition, ibanPosition, serviceNumberPosition)
             score == calculateLayoutMatchScore(namePosition, amountPosition, ibanPosition,
                                                serviceNumberPosition, formLayouts[k])
         IN  IF score > prev.highestScore
             THEN [bestMatch |-> formLayouts[k], highestScore |-> score]
             ELSE prev

detectFormLayout(namePosition, amountPosition, ibanPosition, serviceNumberPosition) ==
    LET best == BestLayout(Len(formLayouts), namePosition, amountPosition, ibanPosition,
                           serviceNumberPosition)
    IN  [layout |-> best.bestMatch.name, confidence |-> best.highestScore]

---------------------------------------------------------------------------
(* Pattern registry and learning loop: services/TrainingService.               *)
(* The operations work on a record of the service's state: the three stores,    *)
(* the id counter of the pattern store, the initialized flag and the in-memory  *)
(* pattern map.                                                                  *)

EmptyRegistry == [ft \in FieldTypes |-> <<>>]

\* table.add(item): the store assigns the next id
dbAdd(s, item) ==
    [s EXCEPT !.extractionPatterns =
                  Append(@, [id |-> s.nextId, fieldType |-> item.fieldType,
                             patternRegex |-> item.patternRegex, priority |-> item.priority,
                             successRate |-> item.successRate, usageCount |-> item.usageCount]),
              !.nextId = @ + 1]

RECURSIVE bulkAdd(_, _)
bulkAdd(s, items) ==
    IF items = <<>> THEN s ELSE bulkAdd(dbAdd(s, Head(items)), Tail(items))

\* where('patternRegex').equals(patternRegex).count()
CountByRegex(s, patternRegex) ==
    Cardinality({i \in 1..Len(s.extractionPatterns) :
                    s.extractionPatterns[i].patternRegex = patternRegex})

\* orderBy('priority'): by priority, patterns of equal priority in id order
RECURSIVE OrderByPriority(_)
OrderByPriority(ps) ==
    IF ps = {} THEN <<>>
    ELSE LET first == CHOOSE x \in ps : \A y \in ps :
                          x.priority < y.priority \/ (x.priority = y.priority /\ x.id <= y.id)
         IN  <<first>> \o OrderByPriority(ps \ {first})

\* the active list of one field type: sorted, compiled, invalid patterns dropped
CompiledPatterns(store, fieldType) ==
    LET fieldPatterns == OrderByPriority({store[i] : i \in {j \in 1..Len(store) :
                                                              store[j].fieldType = fieldType}})
        regexPatterns == [k \in 1..Len(fieldPatterns) |-> RegExp(fieldPatterns[k].patternRegex, "i")]
    IN  SelectSeq(regexPatterns, LAMBDA r : r # Null)

\* the map of a load that gives up on the first invalid pattern: the empty lists of the
\* catch block
LoadedRegistry_Aborting(store) ==
    IF \E i \in 1..Len(store) : RegExp(store[i].patternRegex, "i") = Null
    THEN EmptyRegistry
    ELSE [ft \in FieldTypes |-> CompiledPatterns(store, ft)]

\* the map loadPatternRegistry builds from the stored patterns
LoadedRegistry(store) == [ft \in FieldTypes |-> CompiledPatterns(store, ft)]

loadPatternRegistry(s) ==
    [s EXCEPT !.patternRegistry = LoadedRegistry(s.extractionPatterns)]

\* failures of the storage layer a call may meet: a bulkAdd() of initialize rejects
StorageFaults == {"none", "seedExamples", "seedPatterns"}
\* a count() of initialize rejects; initialize catches the error and goes on
CountFaults == {"countExamples", "countPatterns"}

\* initialize(): the state it leaves and whether it rejected
initialize(s, fault) ==
    IF s.initialized THEN [s |-> s, threw |-> FALSE]
    ELSE LET exampleCount == IF fault = "countExamples" THEN 0 ELSE s.trainingExamples
             patternCount == IF fault = "countPatterns" THEN 0
                             ELSE Len(s.extractionPatterns)
             withExamples == IF exampleCount = 0
                             THEN [s EXCEPT !.trainingExamples = @ + initialTrainingData]
                             ELSE s
             withPatterns == IF patternCount = 0
                             THEN bulkAdd(withExamples, initialExtractionPatterns)
                             ELSE withExamples
         IN  IF exampleCount = 0 /\ fault = "seedExamples" THEN [s |-> s, threw |-> TRUE]
             ELSE IF patternCount = 0 /\ fault = "seedPatterns"
             THEN [s |-> withExamples, threw |-> TRUE]
             ELSE [s |-> [loadPatternRegistry(withPatterns) EXCEPT !.initialized = TRUE],
                   threw |-> FALSE]

getPatterns(isInitialized, registry, fieldType) ==
    IF ~isInitialized THEN <<>> ELSE registry[fieldType]

\* the body of the loop of learnNewPattern for one line, without the look-up of the
\* pattern in the store
LearnLine_NoLookup(s, fieldType, line, correctValue) ==
    LET patternWord == PatternWord(line, correctValue)
    IN  IF patternWord = "" THEN s
        ELSE loadPatternRegistry(
                 dbAdd(s, [fieldType |-> fieldType,
                           patternRegex |-> patternWord \o CaptureGroup(fieldType),
                           priority |-> 5, successRate |-> 60 * RateScale, usageCount |-> 1]))

\* the body of the loop of learnNewPattern for one line
LearnLine(s, fieldType, line, correctValue) ==
    LET patternWord == PatternWord(line, correctValue)
        patternRegex == patternWord \o CaptureGroup(fieldType)
    IN  IF patternWord = "" THEN s
        ELSE IF CountByRegex(s, patternRegex) = 0
        THEN loadPatternRegistry(
                 dbAdd(s, [fieldType |-> fieldType, patternRegex |-> patternRegex,
                           priority |-> 5, successRate |-> 60 * RateScale, usageCount |-> 1]))
        ELSE s

\* learnNewPattern: context is the sequence of the lines of the context string
RECURSIVE learnNewPattern(_, _, _, _)
learnNewPattern(s, fieldType, context, correctValue) ==
    IF context = <<>> THEN s
    ELSE learnNewPattern(LearnLine(s, fieldType, Head(context), correctValue),
                         fieldType, Tail(context), correctValue)

\* originalValue.match(new RegExp(patternRegex, 'i')) is not null
ValueMatches(patternRegex, value) ==
    \/ patternRegex = treasuryPatterns[1].patternRegex /\ value = "MR. Mohammed Al Motaeri"
    \/ /\ patternRegex = treasuryPatterns[3].patternRegex
       /\ value \in {"Mohammed Al Motaeri", "MR. Mohammed Al Motaeri"}
    \/ patternRegex = builtinIbanPatterns[5].source /\ value = "SA0380000000608010167519"
    \/ patternRegex = builtinServicePatterns[7].source /\ value = "FTTH00516134"

\* successRate * (1 - learningRate) + 100 * learningRate, without the decay factor
NewSuccessRate_NoDecay(successRate, originalValue, correctedValue) ==
    successRate + (IF originalValue = correctedValue THEN 100 * RateScale ELSE 0) \div 10

\* successRate * (1 - learningRate) + (100 or 0) * learningRate, with learningRate 0.1
NewSuccessRate(successRate, originalValue, correctedValue) ==
    (successRate * 9) \div 10
    + (IF originalValue = correctedValue THEN 100 * RateScale ELSE 0) \div 10

\* updatePatternSuccessRates without the increment of usageCount
updatePatternSuccessRates_NoUsage(s, fieldType, originalValue, correctedValue) ==
    LET patterns == s.extractionPatterns
        updated == [i \in 1..Len(patterns) |->
                       IF /\ patterns[i].fieldType = fieldType
                          /\ RegExp(patterns[i].patternRegex, "i") # Null
                          /\ ValueMatches(patterns[i].patternRegex, originalValue)
                       THEN [patterns[i] EXCEPT
                                !.successRate = NewSuccessRate(patterns[i].successRate,
                                                               originalValue, correctedValue)]
                       ELSE patterns[i]]
    IN  loadPatternRegistry([s EXCEPT !.extractionPatterns = updated])

updatePatternSuccessRates(s, fieldType, originalValue, correctedValue) ==
    LET patterns == s.extractionPatterns
        updated == [i \in 1..Len(patterns) |->
                       IF /\ patterns[i].fieldType = fieldType
                          /\ RegExp(patterns[i].patternRegex, "i") # Null
                          /\ ValueMatches(patterns[i].patternRegex, originalValue)
                       THEN [patterns[i] EXCEPT
                                !.successRate = NewSuccessRate(patterns[i].successRate,
                                                               originalValue, correctedValue),
                                !.usageCount = patterns[i].usageCount + 1]
                       ELSE patterns[i]]
    IN  loadPatternRegistry([s EXCEPT !.extractionPatterns = updated])

\* addTrainingExample without the add to db.trainingExamples
addTrainingExample_NoStore(s, fieldType, value, context) ==
    IF context # <<>> THEN learnNewPattern(s, fieldType, context, value) ELSE s

\* addTrainingExample, called on an initialized service
addTrainingExample(s, fieldType, value, context) ==
    LET stored == [s EXCEPT !.trainingExamples = @ + 1]
    IN  IF context # <<>> THEN learnNewPattern(stored, fieldType, context, value) ELSE stored

\* recordCorrection after its initialize() returned
recordCorrection(s, fieldType, originalValue, correctedValue, documentId, context) ==
    LET recorded == [s EXCEPT !.correctionHistory =
                        Append(@, [fieldType |-> fieldType, originalValue |-> originalValue,
                                   correctedValue |-> correctedValue,
                                   documentId |-> documentId, confidence |-> 100])]
        trained == addTrainingExample(recorded, fieldType, correctedValue, context)
        learned == IF context # <<>>
                   THEN learnNewPattern(trained, fieldType, context, correctedValue)
                   ELSE trained
    IN  updatePatternSuccessRates(learned, fieldType, originalValue, correctedValue)

\* ensureTreasuryPatterns with a reload that rebuilds the map
ensureTreasuryPatterns_Reloading(s) ==
    IF CountByRegex(s, TreasuryProbe) = 0
    THEN loadPatternRegistry(bulkAdd(s, treasuryPatterns))
    ELSE s

\* ensureTreasuryPatterns (utils/extractors): the four inserts, then initialize() as the
\* reload
ensureTreasuryPatterns(s) ==
    IF CountByRegex(s, TreasuryProbe) = 0
    THEN initialize(bulkAdd(s, treasuryPatterns), "none").s
    ELSE s

---------------------------------------------------------------------------
(* The service state as the variables hold it *)

Current ==
    [extractionPatterns |-> extractionPatterns, trainingExamples |-> trainingExamples,
     correctionHistory |-> correctionHistory, nextId |-> nextId,
     initialized |-> initialized, patternRegistry |-> patternRegistry, loading |-> loading,
     initializing |-> initializing, documentDb |-> documentDb,
     documentCache |-> documentCache]

Install(s) ==
    /\ extractionPatterns' = s.extractionPatterns
    /\ trainingExamples' = s.trainingExamples
    /\ correctionHistory' = s.correctionHistory
    /\ nextId' = s.nextId
    /\ initialized' = s.initialized
    /\ patternRegistry' = s.patternRegistry
    /\ loading' = s.loading
    /\ initializing' = s.initializing
    /\ documentDb' = s.documentDb
    /\ documentCache' = s.documentCache

\* lastCall: the operation, the inputs of a learnNewPattern, recordCorrection or
\* processDocumentText call (for the latter the faults it meets and whether the service
\* was initialized),
\* the number of patterns it inserted, whether it repeats the previous call with the same
\* inputs (and what that call inserted), and whether it rejected
Call(op, args, inserted, threw) ==
    [op |-> op, args |-> args, inserted |-> inserted, repeat |-> FALSE,
     insertedBefore |-> 0, threw |-> threw]
RepeatableCall(op, args, inserted) ==
    [op |-> op, args |-> args, inserted |-> inserted,
     repeat |-> lastCall.op = op /\ lastCall.args = args,
     insertedBefore |-> IF lastCall.op = op /\ lastCall.args = args THEN lastCall.inserted ELSE 0,
     threw |-> FALSE]
NoCall == [op |-> "none", args |-> <<>>, inserted |-> 0, repeat |-> FALSE,
           insertedBefore |-> 0, threw |-> FALSE]

FieldResult(value, confidence) == [value |-> value, confidence |-> confidence]

NoExtraction ==
    [status |-> "none",
     customerName |-> FieldResult(<<>>, 0), refundAmount |-> FieldResult(<<>>, 0),
     ibanNumber |-> FieldResult(<<>>, 0), customerServiceNumber |-> FieldResult(<<>>, 0),
     detectedLayout |-> "none", layoutConfidence |-> 0]

\* the placeholder processSelectedFile shows when processDocumentText rejects (App.tsx)
ErrorPlaceholder ==
    [status |-> "rejected",
     customerName |-> FieldResult(<<"Error processing file">>, 0),
     refundAmount |-> FieldResult(<<"0.00">>, 0),
     ibanNumber |-> FieldResult(<<"Unknown">>, 0),
     customerServiceNumber |-> FieldResult(<<"Unknown">>, 0),
     detectedLayout |-> "Error", layoutConfidence |-> 0]

\* no loadPatternRegistry call is between its clear() and the answer of its query
NotLoading == [cleared |-> FALSE, before |-> EmptyRegistry]

\* the callers of initialize(): the effect of App at start-up and processDocumentText
Callers == {"app", "processDocumentText"}
\* no initialize() call is in flight
NotInitializing ==
    [caller \in Callers |-> [awaits |-> "none", exampleCount |-> 0, patternCount |-> 0]]

\* the database of DocumentManager with nothing stored, and its empty cache
EmptyDocumentDb == [documents |-> {}, extractionResults |-> {}]
EmptyCache == {}

IdleRegistry ==
    /\ extractionPatterns = <<>>
    /\ trainingExamples = 0
    /\ correctionHistory = <<>>
    /\ nextId = 1
    /\ initialized = FALSE
    /\ patternRegistry = EmptyRegistry
    /\ loading = NotLoading
    /\ initializing = NotInitializing
    /\ documentDb = EmptyDocumentDb
    /\ documentCache = EmptyCache
    /\ extracted = NoExtraction
    /\ lastCall = NoCall

---------------------------------------------------------------------------
(* Specification of the section divider as a pure function *)

IdleLayout == /\ positions = <<-1, -1, -1, -1>>
              /\ layoutResult = [layout |-> "none", confidence |-> 0]

\* the texts divided: every short text, and forms of five lines with their header and
\* name rows in either order; the section counts: the small ones and the default, 10
InitDivide ==
    /\ text \in (SeqsUpTo(DivideLines, MaxLines) \ {<<>>})
               \cup {<<r0, r1, BLANK, r3, r4>> : r0 \in {BLANK, HDR, NAME_MR},
                                                 r1 \in {BLANK, HDR, NAME_MR},
                                                 r3 \in {NAME_MR, OFFICE},
                                                 r4 \in {OFFICE, SIG_NAME}}
    /\ sectionCount \in 0..MaxSectionCount \cup {10}
    /\ sections = <<>>
    /\ divideOutcome = "none"
    /\ IdleLayout
    /\ IdleRegistry

Divide ==
    /\ divideOutcome = "none"
    /\ IF divideThrows(text, sectionCount)
       THEN /\ divideOutcome' = "threw"
            /\ sections' = <<>>
       ELSE /\ divideOutcome' = "returned"
            /\ sections' = divideDocumentIntoSections(text, sectionCount)
    /\ UNCHANGED <<text, sectionCount, layoutVars, storeVars, serviceVars, extracted, lastCall>>

NextDivide == Divide

SpecDivide == InitDivide /\ [][NextDivide]_vars

---------------------------------------------------------------------------
(* Specification of the layout detector as a pure function *)

LayoutPositions == {-1, 5, 15, 18, 25, 35, 45, 55, 65, 75, 85}

IdleDivide == /\ text = <<>>
              /\ sectionCount = 10
              /\ sections = <<>>
              /\ divideOutcome = "none"

InitLayout ==
    /\ positions \in LayoutPositions \X LayoutPositions \X LayoutPositions \X LayoutPositions
    /\ layoutResult = [layout |-> "none", confidence |-> 0]
    /\ IdleDivide
    /\ IdleRegistry

Detect ==
    /\ layoutResult.layout = "none"
    /\ layoutResult' = detectFormLayout(positions[1], positions[2], positions[3], positions[4])
    /\ UNCHANGED <<divideVars, positions, storeVars, serviceVars, extracted, lastCall>>

NextLayout == Detect

SpecLayout == InitLayout /\ [][NextLayout]_vars

---------------------------------------------------------------------------
(* Operations of the application on the registry and the extraction pipeline *)

\* the storage failure is one the call meets: it seeds the store that fails
FaultMet(s, fault) ==
    \/ fault = "none"
    \/ /\ ~s.initialized
       /\ \/ fault \in {"countExamples", "countPatterns"}
          \/ fault = "seedExamples" /\ s.trainingExamples = 0
          \/ fault = "seedPatterns" /\ Len(s.extractionPatterns) = 0

\* the model stops short of the bounds on the stores
WithinBounds(s) ==
    /\ s.nextId <= MaxPatterns + 1
    /\ Len(s.correctionHistory) <= MaxCorrections
    /\ s.trainingExamples <= initialTrainingData + MaxCorrections

Inserted(s) == Len(s.extractionPatterns) - Len(extractionPatterns)

\* MergeResults with the boost given whatever the layout confidence is
MergeResults_AlwaysBoost(nameResult, amountResult, ibanResult, serviceResult) ==
    LET layoutDetection == detectFormLayout(nameResult.position, amountResult.position,
                                            ibanResult.position, serviceResult.position)
    IN  [status |-> "returned",
         customerName |-> FieldResult(nameResult.value, Min(nameResult.confidence + 5, 100)),
         refundAmount |-> FieldResult(amountResult.value, Min(amountResult.confidence + 5, 100)),
         ibanNumber |-> FieldResult(ibanResult.value, Min(ibanResult.confidence + 5, 100)),
         customerServiceNumber |-> FieldResult(serviceResult.value,
                                               Min(serviceResult.confidence + 5, 100)),
         detectedLayout |-> layoutDetection.layout,
         layoutConfidence |-> layoutDetection.confidence]

\* the end of processDocumentText: the layout detection and the record returned
MergeResults(nameResult, amountResult, ibanResult, serviceResult) ==
    LET layoutDetection == detectFormLayout(nameResult.position, amountResult.position,
                                            ibanResult.position, serviceResult.position)
        confidenceBoost == IF layoutDetection.confidence > 70 * ScoreScale THEN 5 ELSE 0
    IN  [status |-> "returned",
         customerName |-> FieldResult(nameResult.value,
                                      Min(nameResult.confidence + confidenceBoost, 100)),
         refundAmount |-> FieldResult(amountResult.value,
                                      Min(amountResult.confidence + confidenceBoost, 100)),
         ibanNumber |-> FieldResult(ibanResult.value,
                                    Min(ibanResult.confidence + confidenceBoost, 100)),
         customerServiceNumber |-> FieldResult(serviceResult.value,
                                               Min(serviceResult.confidence + confidenceBoost, 100)),
         detectedLayout |-> layoutDetection.layout,
         layoutConfidence |-> layoutDetection.confidence]

\* processDocumentText after initialize() and ensureTreasuryPatterns(): the result the
\* caller receives when no extractor raises
ExtractedData(secs, s) ==
    MergeResults(
        extractCustomerName(secs, getPatterns(s.initialized, s.patternRegistry, "customerName")),
        extractRefundAmount(secs, getPatterns(s.initialized, s.patternRegistry, "refundAmount")),
        extractIBAN(secs, getPatterns(s.initialized, s.patternRegistry, "ibanNumber")),
        extractServiceNumber(secs, getPatterns(s.initialized, s.patternRegistry,
                                               "customerServiceNumber")))

\* App start-up: trainingService.initialize(), its rejection caught and logged
AppInitialize(fault) ==
    /\ ~initialized
    /\ FaultMet(Current, fault)
    /\ LET r == initialize(Current, fault)
       IN  /\ r.s.nextId <= MaxPatterns + 1
           /\ r.s.trainingExamples <= 2 * initialTrainingData + MaxCorrections
           /\ Install(r.s)
           /\ lastCall' = Call("initialize", <<>>, Inserted(r.s), r.threw)
    /\ UNCHANGED <<divideVars, layoutVars, extracted>>

\* processSelectedFile: processDocumentText(text) on the text of the selected file;
\* extractorFault names the extractor that raises an error, if one does
ProcessDocumentText(fault, extractorFault) ==
    /\ FaultMet(Current, fault)
    /\ fault = "none" \/ extractorFault = "none"
    /\ LET r == initialize(Current, fault)
           s == ensureTreasuryPatterns(r.s)
           secs == divideDocumentIntoSections(text, 10)
       IN  IF r.threw
           THEN /\ Install(r.s)
                /\ extracted' = ErrorPlaceholder
                /\ lastCall' = Call("processDocumentText", <<fault, extractorFault, initialized>>,
                                    Inserted(r.s), TRUE)
                /\ UNCHANGED <<divideVars, layoutVars>>
           ELSE /\ WithinBounds(s)
                /\ Install(s)
                /\ sections' = secs
                /\ divideOutcome' = "returned"
                /\ UNCHANGED <<text, sectionCount>>
                /\ IF extractorFault # "none"
                   THEN /\ extracted' = ErrorPlaceholder
                        /\ lastCall' = Call("processDocumentText", <<fault, extractorFault, initialized>>,
                                            Inserted(s), TRUE)
                        /\ UNCHANGED layoutVars
                   ELSE /\ extracted' = ExtractedData(secs, s)
                        /\ UNCHANGED layoutVars
                        /\ lastCall' = Call("processDocumentText", <<fault, extractorFault, initialized>>,
                                            Inserted(s), FALSE)

\* the corrections the user makes: field, extracted value, corrected value, document,
\* and the lines of the document around the value
Corrections ==
    {[fieldType |-> "customerName", originalValue |-> "Karim Abu Taha",
      correctedValue |-> "Mohammed Al Motaeri", documentId |-> "doc",
      context |-> <<NAME_MR, BENEF>>],
     [fieldType |-> "customerName", originalValue |-> "Mohammed Al Motaeri",
      correctedValue |-> "Mohammed Al Motaeri", documentId |-> "doc", context |-> <<>>],
     [fieldType |-> "customerName", originalValue |-> "Mohammed Al Motaeri",
      correctedValue |-> "Ahmed Hassan", documentId |-> "doc", context |-> <<BARE>>]}

\* trainingService.recordCorrection(...)
RecordCorrection(c, fault) ==
    /\ FaultMet(Current, fault)
    /\ LET r == initialize(Current, fault)
           s == recordCorrection(r.s, c.fieldType, c.originalValue, c.correctedValue,
                                 c.documentId, c.context)
       IN  IF r.threw
           THEN /\ Install(r.s)
                /\ lastCall' = Call("recordCorrection", <<>>, Inserted(r.s), TRUE)
           ELSE /\ WithinBounds(s)
                /\ Install(s)
                /\ lastCall' = Call("recordCorrection", <<c>>, Inserted(s), FALSE)
    /\ UNCHANGED <<divideVars, layoutVars, extracted>>

\* handleDataCorrection that also forgets the confidence of the layout
handleDataCorrection_ResetLayout(currentData, fieldType, value, confidence) ==
    [currentData EXCEPT ![fieldType] = FieldResult(value, confidence), !.layoutConfidence = 0]

\* handleDataCorrection (App.tsx): the copy { ...currentData } with the field replaced
handleDataCorrection(currentData, fieldType, value, confidence) ==
    [currentData EXCEPT ![fieldType] = FieldResult(value, confidence)]

\* handleValueSelect (App.tsx) on the text the user selected for a field of the record
\* shown: recordCorrection with the value shown and the text of the document, then
\* handleDataCorrection with confidence 100, which keeps the record shown when
\* documentManager.storeExtractionResults rejects (storeFault); a rejection of
\* recordCorrection is caught before the record is touched
HandleValueSelect(fieldType, selected, fault, storeFault) ==
    /\ extracted.status # "none"
    /\ FaultMet(Current, fault)
    /\ LET r == initialize(Current, fault)
           s == recordCorrection(r.s, fieldType, Head(extracted[fieldType].value), selected,
                                 "doc", text)
       IN  IF r.threw
           THEN /\ Install(r.s)
                /\ lastCall' = Call("handleValueSelect", <<fieldType, selected, storeFault>>,
                                    Inserted(r.s), TRUE)
                /\ UNCHANGED extracted
           ELSE /\ WithinBounds(s)
                /\ Install(s)
                /\ lastCall' = Call("handleValueSelect", <<fieldType, selected, storeFault>>,
                                    Inserted(s), FALSE)
                /\ extracted' = IF storeFault THEN extracted
                                ELSE handleDataCorrection(extracted, fieldType, <<selected>>, 100)
    /\ UNCHANGED <<divideVars, layoutVars>>

\* trainingService.addTrainingExample(...), as the selection popup calls it
AddTrainingExample(c, fault) ==
    /\ FaultMet(Current, fault)
    /\ LET r == initialize(Current, fault)
           s == addTrainingExample(r.s, c.fieldType, c.correctedValue, c.context)
       IN  IF r.threw
           THEN /\ Install(r.s)
                /\ lastCall' = Call("addTrainingExample", <<>>, Inserted(r.s), TRUE)
           ELSE /\ WithinBounds(s)
                /\ Install(s)
                /\ lastCall' = Call("addTrainingExample", <<>>, Inserted(s), FALSE)
    /\ UNCHANGED <<divideVars, layoutVars, extracted>>

\* trainingService.learnNewPattern(fieldType, context, correctValue)
LearnNewPattern(c) ==
    /\ c.context # <<>>
    /\ LET s == learnNewPattern(Current, c.fieldType, c.context, c.correctedValue)
       IN  /\ WithinBounds(s)
           /\ Install(s)
           /\ lastCall' = RepeatableCall("learnNewPattern",
                                         <<c.fieldType, c.context, c.correctedValue>>,
                                         Inserted(s))
    /\ UNCHANGED <<divideVars, layoutVars, extracted>>

\* what the user enters in the Add Pattern form
UiPatterns == {[fieldType |-> "customerServiceNumber", patternRegex |-> "(FTTH\\d+)",
                priority |-> 1],
               [fieldType |-> "customerServiceNumber", patternRegex |-> "(FTTH\\d+",
                priority |-> 1]}

\* Add Pattern handler (components/ResultsTable): an invalid expression is refused; the
\* pattern is stored; the in-memory map is left as it is
UiAddPattern(p, fault) ==
    /\ RegExp(p.patternRegex, "") # Null
    /\ FaultMet(Current, fault)
    /\ LET r == initialize(Current, fault)
           s == dbAdd(r.s, [fieldType |-> p.fieldType, patternRegex |-> p.patternRegex,
                            priority |-> p.priority, successRate |-> 60 * RateScale,
                            usageCount |-> 0])
       IN  IF r.threw
           THEN /\ Install(r.s)
                /\ lastCall' = Call("uiAdd", <<>>, Inserted(r.s), TRUE)
           ELSE /\ WithinBounds(s)
                /\ Install(s)
                /\ lastCall' = Call("uiAdd", <<>>, Inserted(s), FALSE)
    /\ UNCHANGED <<divideVars, layoutVars, extracted>>

\* Save handler of an edited row: update(id, {fieldType, patternRegex, priority}), then
\* trainingService.initialize(); the edit sets the priority
UiEditPattern(id, priority, fault) ==
    /\ \E i \in 1..Len(extractionPatterns) :
          extractionPatterns[i].id = id /\ extractionPatterns[i].priority # priority
    /\ FaultMet(Current, fault)
    /\ LET updated == [Current EXCEPT !.extractionPatterns =
                          [i \in 1..Len(extractionPatterns) |->
                              IF extractionPatterns[i].id = id
                              THEN [extractionPatterns[i] EXCEPT !.priority = priority]
                              ELSE extractionPatterns[i]]]
           r == initialize(updated, fault)
       IN  /\ Install(r.s)
           /\ lastCall' = Call("uiEdit", <<>>, Inserted(r.s), r.threw)
    /\ UNCHANGED <<divideVars, layoutVars, extracted>>

\* Delete handler of a row: delete(id), then trainingService.initialize()
UiDeletePattern(id, fault) ==
    /\ \E i \in 1..Len(extractionPatterns) : extractionPatterns[i].id = id
    /\ FaultMet(Current, fault)
    /\ LET deleted == [Current EXCEPT !.extractionPatterns =
                          SelectSeq(extractionPatterns, LAMBDA x : x.id # id)]
           r == initialize(deleted, fault)
       IN  /\ Install(r.s)
           /\ lastCall' = Call("uiDelete", <<>>, Inserted(r.s), r.threw)
    /\ UNCHANGED <<divideVars, layoutVars, extracted>>

\* the page is loaded again: the stores persist, the service object is new
Reload ==
    /\ initialized
    /\ initialized' = FALSE
    /\ patternRegistry' = EmptyRegistry
    /\ loading' = NotLoading
    /\ initializing' = NotInitializing
    /\ documentCache' = EmptyCache
    /\ extracted' = NoExtraction
    /\ lastCall' = NoCall
    /\ sections' = <<>>
    /\ divideOutcome' = "none"
    /\ UNCHANGED <<text, sectionCount, layoutVars, storeVars>>

---------------------------------------------------------------------------
(* A registry write at the grain of its last loadPatternRegistry call: the call   *)
(* empties the map, awaits the query of the store, and fills the map when the     *)
(* answer arrives.  getPatterns is synchronous and runs whenever an extractor     *)
(* reaches it.                                                                     *)

\* trainingService.recordCorrection(...) from its start to the await of the reload that
\* ends updatePatternSuccessRates
RecordCorrectionBegin(c) ==
    /\ initialized
    /\ ~loading.cleared
    /\ LET s == recordCorrection(Current, c.fieldType, c.originalValue, c.correctedValue,
                                 c.documentId, c.context)
       IN  /\ WithinBounds(s)
           /\ Install([s EXCEPT !.patternRegistry = EmptyRegistry,
                                !.loading = [cleared |-> TRUE, before |-> s.patternRegistry]])
           /\ lastCall' = Call("recordCorrection", <<c>>, Inserted(s), FALSE)
    /\ UNCHANGED <<divideVars, layoutVars, extracted>>

\* the query of that loadPatternRegistry call answers: the map is filled and the call
\* returns
LoadPatternRegistryResume ==
    /\ loading.cleared
    /\ Install([loadPatternRegistry(Current) EXCEPT !.loading = NotLoading])
    /\ lastCall' = Call("loadPatternRegistry", <<>>, 0, FALSE)
    /\ UNCHANGED <<divideVars, layoutVars, extracted>>

\* an extractor reads trainingService.getPatterns(fieldType)
GetPatterns(fieldType) ==
    /\ initialized
    /\ lastCall' = Call("getPatterns",
                        <<fieldType, getPatterns(initialized, patternRegistry, fieldType)>>,
                        0, FALSE)
    /\ UNCHANGED <<divideVars, layoutVars, storeVars, serviceVars, extracted>>

---------------------------------------------------------------------------
(* Specification of the registry and its learning loop: one document *)

RegistryText ==
    <<HDR, NAME_MR, SERVICE, AMOUNT, BLANK, IBAN, BLANK, OFFICE, SIG_NAME, BLANK>>

InitRegistry ==
    /\ text = RegistryText
    /\ sectionCount = 10
    /\ sections = <<>>
    /\ divideOutcome = "none"
    /\ IdleLayout
    /\ IdleRegistry

NextRegistry ==
    \/ \E fault \in StorageFaults : AppInitialize(fault)
    \/ \E fault \in StorageFaults, extractorFault \in {"none"} \cup FieldTypes :
          ProcessDocumentText(fault, extractorFault)
    \/ \E c \in Corrections, fault \in StorageFaults : RecordCorrection(c, fault)
    \/ \E c \in Corrections, fault \in StorageFaults : AddTrainingExample(c, fault)
    \/ \E c \in Corrections : LearnNewPattern(c)
    \/ Reload

SpecRegistry == InitRegistry /\ [][NextRegistry]_vars

---------------------------------------------------------------------------
(* Specification of the extraction pipeline over a family of documents of ten  *)
(* lines: each row of the form holds one of the lines it can hold, or nothing   *)

ExtractDocs ==
    {<<r0, r1, r2, r3, BLANK, r5, BLANK, r7, r8, BLANK>> :
        r0 \in {BLANK, HDR, BARE}, r1 \in {BLANK, NAME_MR, NAME_LBL}, r2 \in {BLANK, SERVICE},
        r3 \in {BLANK, AMOUNT, AMT_BARE}, r5 \in {BLANK, IBAN}, r7 \in {BLANK, OFFICE},
        r8 \in {BLANK, SIG_NAME, NAME_MR}}

InitExtract ==
    /\ text \in ExtractDocs
    /\ sectionCount = 10
    /\ sections = <<>>
    /\ divideOutcome = "none"
    /\ IdleLayout
    /\ IdleRegistry

NextExtract ==
    \/ \E fault \in StorageFaults, extractorFault \in {"none"} \cup FieldTypes :
          ProcessDocumentText(fault, extractorFault)
    \/ Reload

SpecExtract == InitExtract /\ [][NextExtract]_vars

---------------------------------------------------------------------------
(* Specification of the pattern management form next to the extraction *)

NextPatternUi ==
    \/ \E fault \in StorageFaults \cup CountFaults : AppInitialize(fault)
    \/ \E fault \in StorageFaults, extractorFault \in {"none"} \cup FieldTypes :
          ProcessDocumentText(fault, extractorFault)
    \/ \E p \in UiPatterns, fault \in StorageFaults : UiAddPattern(p, fault)
    \/ \E id \in {2, 6}, fault \in StorageFaults : UiEditPattern(id, 9, fault)
    \/ \E id \in {2, 6}, fault \in StorageFaults : UiDeletePattern(id, fault)
    \/ Reload

SpecPatternUi == InitRegistry /\ [][NextPatternUi]_vars

---------------------------------------------------------------------------
(* Specification of the load of a persisted registry: the IndexedDB stores outlive *)
(* the page, so the service starts on whatever patterns the database holds         *)

\* patterns a persisted store may hold; the first is not a valid regular expression
StoredCandidates ==
    {ExtractionPattern("customerServiceNumber", "(FTTH\\d+", 1, 60, 0),
     ExtractionPattern("customerServiceNumber", "(FTTH\\d+)", 2, 60, 0),
     ExtractionPattern("customerName", "name\\s*:\\s*" \o CH, 2, 90, 15),
     ExtractionPattern("customerName", "customer\\s*name\\s*:\\s*" \o CH, 1, 95, 10)}

\* the stores before anything was added to them
EmptyStores ==
    [extractionPatterns |-> <<>>, trainingExamples |-> 0, correctionHistory |-> <<>>,
     nextId |-> 1, initialized |-> FALSE, patternRegistry |-> EmptyRegistry,
     loading |-> NotLoading, initializing |-> NotInitializing,
     documentDb |-> EmptyDocumentDb, documentCache |-> EmptyCache]

InitLoad ==
    /\ text = RegistryText
    /\ sectionCount = 10
    /\ sections = <<>>
    /\ divideOutcome = "none"
    /\ IdleLayout
    /\ \E items \in SeqsUpTo(StoredCandidates, MaxStored) :
          /\ extractionPatterns = bulkAdd(EmptyStores, items).extractionPatterns
          /\ nextId = Len(items) + 1
    /\ trainingExamples \in {0, initialTrainingData}
    /\ correctionHistory = <<>>
    /\ initialized = FALSE
    /\ patternRegistry = EmptyRegistry
    /\ loading = NotLoading
    /\ initializing = NotInitializing
    /\ documentDb = EmptyDocumentDb
    /\ documentCache = EmptyCache
    /\ extracted = NoExtraction
    /\ lastCall = NoCall

NextLoad ==
    \/ \E fault \in StorageFaults \cup CountFaults : AppInitialize(fault)
    \/ \E fieldType \in FieldTypes : GetPatterns(fieldType)
    \/ Reload

SpecLoad == InitLoad /\ [][NextLoad]_vars

---------------------------------------------------------------------------
(* Specification of the start-up: initialize() at the grain of its awaits.  The    *)
(* effect of App calls it when the page opens and processDocumentText calls it for  *)
(* every document; a call that finds initialized false runs the whole body, and     *)
(* every await lets the other call run.                                             *)

\* what the call awaits after its counts, and after each seeding
AfterCounts(call) ==
    IF call.exampleCount = 0 THEN "seedExamples"
    ELSE IF call.patternCount = 0 THEN "seedPatterns" ELSE "initializeFuseSearch"

\* initialize() from the promise it awaits to its next await, or to its end
resumeInitialize(s, caller) ==
    LET call == s.initializing[caller]
        Awaiting(s2, next) == [s2 EXCEPT !.initializing[caller].awaits = next]
    IN  CASE call.awaits = "countExamples" ->
                 [s EXCEPT !.initializing[caller] =
                               [call EXCEPT !.exampleCount = s.trainingExamples,
                                            !.awaits = "countPatterns"]]
          [] call.awaits = "countPatterns" ->
                 LET counted == [call EXCEPT !.patternCount = Len(s.extractionPatterns)]
                 IN  [s EXCEPT !.initializing[caller] =
                                   [counted EXCEPT !.awaits = AfterCounts(counted)]]
          [] call.awaits = "seedExamples" ->
                 Awaiting([s EXCEPT !.trainingExamples = @ + initialTrainingData],
                          IF call.patternCount = 0 THEN "seedPatterns"
                          ELSE "initializeFuseSearch")
          [] call.awaits = "seedPatterns" ->
                 Awaiting(bulkAdd(s, initialExtractionPatterns), "initializeFuseSearch")
          [] call.awaits = "initializeFuseSearch" ->
                 Awaiting([s EXCEPT !.patternRegistry = EmptyRegistry], "loadPatternRegistry")
          [] call.awaits = "loadPatternRegistry" ->
                 [loadPatternRegistry(s) EXCEPT !.initialized = TRUE,
                                                !.initializing[caller] = NotInitializing[caller]]

\* a caller calls initialize(): the call finds initialized false and awaits its first count
InitializeCall(caller) ==
    /\ ~initialized
    /\ initializing[caller].awaits = "none"
    /\ Install([Current EXCEPT !.initializing[caller].awaits = "countExamples"])
    /\ lastCall' = Call("initialize", <<caller, "called">>, 0, FALSE)
    /\ UNCHANGED <<divideVars, layoutVars, extracted>>

\* the promise a call awaits settles and the call runs on
InitializeResume(caller) ==
    /\ initializing[caller].awaits # "none"
    /\ LET s == resumeInitialize(Current, caller)
       IN  /\ WithinBounds(s)
           /\ Install(s)
           /\ lastCall' = Call("initialize", <<caller, initializing[caller].awaits>>,
                               Inserted(s), FALSE)
    /\ UNCHANGED <<divideVars, layoutVars, extracted>>

NextStartup ==
    \/ \E caller \in Callers : InitializeCall(caller)
    \/ \E caller \in Callers : InitializeResume(caller)
    \/ \E fieldType \in FieldTypes : GetPatterns(fieldType)
    \/ Reload

SpecStartup == InitRegistry /\ [][NextStartup]_vars

---------------------------------------------------------------------------
(* DocumentManager (services/DocumentManager): the documents table and the         *)
(* extractionResults table of its database, keyed by document id, and the cache    *)
(* of File objects.  A table and the cache are sets of records with one record per *)
(* id.  A File is modelled by its name.                                            *)

\* the files the user selects, in the order of their names
FileNames == <<"a.pdf", "b.pdf">>
\* Date.now() at the calls of generateDocumentId
Timestamps == 1..MaxClock
\* Math.random().toString(36).substring(2, 9)
RandomParts == <<"k3x9q2a">>

\* generateDocumentId: `doc_${timestamp}_${filenamePart}_${sizePart}_${randomPart}`; the
\* size is a function of the file
generateDocumentId(file, timestamp, randomPart) == <<timestamp, file, randomPart>>

DocumentIds ==
    {generateDocumentId(FileNames[f], t, RandomParts[r]) :
        f \in 1..Len(FileNames), t \in Timestamps, r \in 1..Len(RandomParts)}

Rank(seq, x) == CHOOSE i \in 1..Len(seq) : seq[i] = x

\* the order of the ids as strings, which is the order of toArray()
IdBefore(a, b) ==
    \/ a[1] < b[1]
    \/ a[1] = b[1] /\ Rank(FileNames, a[2]) < Rank(FileNames, b[2])
    \/ a[1] = b[1] /\ a[2] = b[2] /\ Rank(RandomParts, a[3]) <= Rank(RandomParts, b[3])

\* table.put(record) and Map.set(id, file): the record replaces the one of its id
Put(table, record) == {r \in table : r.id # record.id} \cup {record}
\* table.delete(id) and Map.delete(id)
Remove(table, id) == {r \in table : r.id # id}
\* table.get(id) is defined, Map.has(id)
Has(table, id) == \E r \in table : r.id = id
Get(table, id) == CHOOSE r \in table : r.id = id

\* array.find(test) on table.toArray(): the first record in id order that passes
Find(matches) == CHOOSE d \in matches : \A e \in matches : IdBefore(d.id, e.id)

\* id.split('_')[1]: the timestamp part of the id
Prefix(id) == id[1]
\* d.id.includes(prefix), for the prefix of an id: the timestamp is the one part of an id
\* that holds the digits of a timestamp
IncludesPrefix(id, prefix) == id[1] = prefix

NoFile == "null"

\* storeDocument(file): the state it leaves and the id it returns
storeDocument(s, file, timestamp, randomPart) ==
    LET id == generateDocumentId(file, timestamp, randomPart)
    IN  [s |-> [s EXCEPT !.documentDb.documents = Put(@, [id |-> id, fileName |-> file]),
                         !.documentCache = Put(@, [id |-> id, file |-> file])],
         id |-> id]

\* getDocument(id): the state it leaves and the File it returns, or null
getDocument(s, id) ==
    LET documents == s.documentDb.documents
        results == s.documentDb.extractionResults
        byPrefix == {d \in documents : IncludesPrefix(d.id, Prefix(id))}
        byName == IF Has(results, id)
                  THEN {d \in documents : d.fileName = Get(results, id).fileName}
                  ELSE {}
        Cached(other) ==
            [s |-> [s EXCEPT !.documentCache =
                                 Put(Put(@, [id |-> id, file |-> other.fileName]),
                                     [id |-> other.id, file |-> other.fileName])],
             file |-> other.fileName]
    IN  IF Has(s.documentCache, id)
        THEN [s |-> s, file |-> Get(s.documentCache, id).file]
        ELSE IF Has(documents, id)
        THEN [s |-> [s EXCEPT !.documentCache =
                                  Put(@, [id |-> id, file |-> Get(documents, id).fileName])],
              file |-> Get(documents, id).fileName]
        ELSE IF byPrefix # {} THEN Cached(Find(byPrefix))
        ELSE IF byName # {} THEN Cached(Find(byName))
        ELSE [s |-> s, file |-> NoFile]

\* deleteDocument(id)
deleteDocument(s, id) ==
    [s EXCEPT !.documentCache = Remove(@, id),
              !.documentDb.documents = Remove(@, id),
              !.documentDb.extractionResults = Remove(@, id)]

\* documentExists(id)
documentExists(s, id) == Has(s.documentCache, id) \/ Has(s.documentDb.documents, id)

\* storeExtractionResults(results)
storeExtractionResults(s, results) ==
    [s EXCEPT !.documentDb.extractionResults = Put(@, results)]

\* handleFilesSelected stores a selected file: the id is new
StoreDocument(file, timestamp, randomPart) ==
    /\ ~Has(documentDb.documents, generateDocumentId(file, timestamp, randomPart))
    /\ ~Has(documentCache, generateDocumentId(file, timestamp, randomPart))
    /\ LET r == storeDocument(Current, file, timestamp, randomPart)
       IN  /\ Install(r.s)
           /\ lastCall' = Call("storeDocument", <<r.id, file>>, 0, FALSE)
    /\ UNCHANGED <<divideVars, layoutVars, extracted>>

GetDocument(id) ==
    /\ LET r == getDocument(Current, id)
       IN  /\ Install(r.s)
           /\ lastCall' = Call("getDocument", <<id, r.file>>, 0, FALSE)
    /\ UNCHANGED <<divideVars, layoutVars, extracted>>

DeleteDocument(id) ==
    /\ Install(deleteDocument(Current, id))
    /\ lastCall' = Call("deleteDocument", <<id>>, 0, FALSE)
    /\ UNCHANGED <<divideVars, layoutVars, extracted>>

DocumentExists(id) ==
    /\ lastCall' = Call("documentExists", <<id, documentExists(Current, id)>>, 0, FALSE)
    /\ UNCHANGED <<divideVars, layoutVars, storeVars, serviceVars, extracted>>

\* the results of the extraction of a stored document are saved under its id
StoreExtractionResults(id) ==
    /\ Has(documentDb.documents, id)
    /\ Install(storeExtractionResults(Current, [id |-> id, fileName |-> id[2]]))
    /\ lastCall' = Call("storeExtractionResults", <<id>>, 0, FALSE)
    /\ UNCHANGED <<divideVars, layoutVars, extracted>>

\* the page is opened again: the cache of the new DocumentManager is empty
DocumentsReload ==
    /\ documentCache # EmptyCache
    /\ documentCache' = EmptyCache
    /\ lastCall' = NoCall
    /\ UNCHANGED <<divideVars, layoutVars, storeVars, initialized, patternRegistry, loading,
                   initializing, extracted>>

NextDocuments ==
    \/ \E f \in 1..Len(FileNames), t \in Timestamps, r \in 1..Len(RandomParts) :
          StoreDocument(FileNames[f], t, RandomParts[r])
    \/ \E id \in DocumentIds : GetDocument(id)
    \/ \E id \in DocumentIds : DeleteDocument(id)
    \/ \E id \in DocumentIds : DocumentExists(id)
    \/ \E id \in DocumentIds : StoreExtractionResults(id)
    \/ DocumentsReload

SpecDocuments == InitRegistry /\ [][NextDocuments]_vars

---------------------------------------------------------------------------
(* Specification of the registry writes interleaved with the reads of the map *)

NextInterleaved ==
    \/ \E fault \in StorageFaults : AppInitialize(fault)
    \/ \E fault \in StorageFaults : ProcessDocumentText(fault, "none")
    \/ \E c \in Corrections : RecordCorrectionBegin(c)
    \/ LoadPatternRegistryResume
    \/ \E fieldType \in FieldTypes : GetPatterns(fieldType)
    \/ \E selection \in {<<"customerName", "Mohammed Al Motaeri">>,
                           <<"ibanNumber", "FTTH00516134">>},
          fault \in StorageFaults, storeFault \in BOOLEAN :
          HandleValueSelect(selection[1], selection[2], fault, storeFault)

SpecInterleaved == InitRegistry /\ [][NextInterleaved]_vars

---------------------------------------------------------------------------
(* Section coverage *)

PctEq(a, b) == a.num * b.den = b.num * a.den

Covers(secs, count) ==
    /\ Len(secs) = count
    /\ count >= 1 => /\ secs[1].startPercentage.num = 0
                     /\ secs[count].endPercentage.num = 100 * secs[count].endPercentage.den
    /\ \A k \in 1..(Len(secs) - 1) : PctEq(secs[k].endPercentage, secs[k + 1].startPercentage)

\* C1 as stated: for every text and every sectionCount the division returns exactly
\* sectionCount sections, the first starting at 0, the last ending at 100, each ending
\* where the next one starts.
C1_EverySectionCount ==
    divideOutcome # "none" => (divideOutcome = "returned" /\ Covers(sections, sectionCount))

\* C1 (amended): for every text and every integer sectionCount >= 1 the division returns
\* exactly sectionCount sections, the first starting at 0, the last ending at 100, and
\* each section ends where the next one starts.
C1_SectionCoverage ==
    (divideOutcome # "none" /\ sectionCount >= 1)
        => (divideOutcome = "returned" /\ Covers(sections, sectionCount))

C1_Witness ==
    /\ divideOutcome = "returned"
    /\ sectionCount = 3
    /\ Len(text) = 4
    /\ Len(sections) = 3
    /\ sections[2].content # <<>>

---------------------------------------------------------------------------
(* Layout degeneracy *)

\* C3: if any of the four positions given to detectFormLayout is -1, the returned
\* confidence is exactly 0 and the returned layout is the first entry of the catalog.
C3_LayoutDegeneracy ==
    (layoutResult.layout # "none" /\ \E k \in 1..4 : positions[k] = -1)
        => (layoutResult.confidence = 0 /\ layoutResult.layout = formLayouts[1].name)

C3_Witness ==
    /\ layoutResult.layout = "Standard Layout"
    /\ positions = <<18, 35, -1, 18>>

\* no two stored patterns have the same patternRegex and the same field type
NoDuplicatePattern(store) ==
    \A i \in 1..Len(store), j \in 1..Len(store) :
        (i < j /\ store[i].fieldType = store[j].fieldType)
        => store[i].patternRegex # store[j].patternRegex

C5_SuccessRateRange ==
    \A i \in 1..Len(extractionPatterns) :
        /\ 0 <= extractionPatterns[i].successRate
        /\ extractionPatterns[i].successRate <= 100 * RateScale

\* two corrections are recorded and have moved the rate of a stored pattern
C5_Witness ==
    /\ Len(correctionHistory) = MaxCorrections
    /\ \E i \in 1..Len(extractionPatterns) :
          /\ extractionPatterns[i].patternRegex = treasuryPatterns[3].patternRegex
          /\ extractionPatterns[i].usageCount = 5 + MaxCorrections
          /\ extractionPatterns[i].successRate # 85 * RateScale

NameShaped(sec) == NameRegexCapture(sec.content).hit
NameOf(sec) == NameRegexCapture(sec.content).value

\* the value holds the name, with or without the title before it
HoldsName(value, name) ==
    /\ Len(name) = 1
    /\ \E q \in 1..Len(value) : value[q] \in {name[1], "MR. " \o name[1]}

\* C2: when the signature-tagged section holds a name-shaped string and the
\* customer-info-tagged section holds a different one, the customer name returned is the
\* one of the customer-info section, not the one of the signature section, and its
\* confidence is greater than 90
C2_SignatureAvoidance ==
    \A ci \in 1..Len(sections), sg \in 1..Len(sections) :
        ( /\ extracted.status = "returned"
          /\ sections[ci].isCustomerInfoSection
          /\ sections[sg].isSignatureSection
          /\ NameShaped(sections[ci])
          /\ NameShaped(sections[sg])
          /\ NameOf(sections[ci]) # NameOf(sections[sg]) )
        => /\ HoldsName(extracted.customerName.value, NameOf(sections[ci]))
           /\ ~HoldsName(extracted.customerName.value, NameOf(sections[sg]))
           /\ extracted.customerName.confidence > 90

InRange(confidence) == 0 <= confidence /\ confidence <= 100

\* C6: every confidence that findPatternInSections, the four extractors and
\* processDocumentText return for the processed document lies in [0, 100]
C6_ConfidenceRange ==
    extracted.status = "returned" =>
        LET name == getPatterns(initialized, patternRegistry, "customerName")
            amount == getPatterns(initialized, patternRegistry, "refundAmount")
            iban == getPatterns(initialized, patternRegistry, "ibanNumber")
            service == getPatterns(initialized, patternRegistry, "customerServiceNumber")
        IN  /\ InRange(extracted.customerName.confidence)
            /\ InRange(extracted.refundAmount.confidence)
            /\ InRange(extracted.ibanNumber.confidence)
            /\ InRange(extracted.customerServiceNumber.confidence)
            /\ InRange(extractCustomerName(sections, name).confidence)
            /\ InRange(extractRefundAmount(sections, amount).confidence)
            /\ InRange(extractIBAN(sections, iban).confidence)
            /\ InRange(extractServiceNumber(sections, service).confidence)
            /\ InRange(findPatternInSections(sections, name \o builtinNamePatterns).confidence)
            /\ InRange(findPatternInSections(sections, amount \o builtinAmountPatterns).confidence)
            /\ InRange(findPatternInSections(sections, iban \o builtinIbanPatterns).confidence)
            /\ InRange(findPatternInSections(sections, service \o builtinServicePatterns).confidence)

\* the not-found sentinel of a field
Sentinel(fieldType) ==
    IF fieldType = "refundAmount" THEN FieldResult(<<"0.00">>, 0)
    ELSE FieldResult(<<"Unknown">>, 0)

\* C8: when one extractor raises an error during processDocumentText, the call still
\* returns: the failing field holds its not-found sentinel and each of the other three
\* fields holds a result of its extractor (value and confidence, the latter possibly with
\* the layout boost)
C8_ExtractorIsolation ==
    (lastCall.op = "processDocumentText" /\ lastCall.args[2] # "none") =>
        LET data == ExtractedData(sections, Current)
        IN  /\ extracted.status = "returned"
            /\ \A ft \in FieldTypes :
                  IF ft = lastCall.args[2]
                  THEN extracted[ft] = Sentinel(ft)
                  ELSE /\ extracted[ft].value = data[ft].value
                       /\ extracted[ft].confidence <= data[ft].confidence

\* C9: when seeding the stores fails during initialize, processDocumentText still returns
\* a result, the one the built-in patterns alone give
C9_SeedingFailureTolerated ==
    (lastCall.op = "processDocumentText" /\ lastCall.args[1] # "none") =>
        /\ extracted.status = "returned"
        /\ extracted = ExtractedData(divideDocumentIntoSections(text, 10),
                                     [Current EXCEPT !.initialized = FALSE])

\* C10: once a call that changes the stored patterns has completed, the in-memory map
\* of the initialized service holds, for each field type, the stored patterns of the
\* type compiled and sorted by priority
C10_RegistryFresh ==
    initialized => patternRegistry = LoadedRegistry(extractionPatterns)


---------------------------------------------------------------------------
(* Reads of the map during a registry write *)

\* C11: a getPatterns read that interleaves with a registry write returns the complete
\* list of the field type as it was before the write or as the write leaves it, never an
\* empty or partial list
C11_NoPartialRead ==
    (lastCall.op = "getPatterns" /\ loading.cleared) =>
        lastCall.args[2] \in {loading.before[lastCall.args[1]],
                              LoadedRegistry(extractionPatterns)[lastCall.args[1]]}

---------------------------------------------------------------------------
(* Seeding *)

\* C12: a run of initialize adds seed patterns only when the pattern store is empty and
\* seed examples only when the example store is empty
C12_SeedsOnlyEmptyStores ==
    [][lastCall'.op = "initialize" =>
          /\ Len(extractionPatterns) > 0 => extractionPatterns' = extractionPatterns
          /\ trainingExamples > 0 => trainingExamples' = trainingExamples]_vars

---------------------------------------------------------------------------
(* Confidence of the bands of the position-aware search *)

\* the pattern lists given to findPatternInSections
SearchLists ==
    {<<builtinNamePatterns[1]>>,
     <<builtinNamePatterns[7], builtinNamePatterns[1]>>,
     builtinNamePatterns}

\* index of the first pattern of the list that captures in the content, or 0
FirstHit(content, patterns) ==
    LET hits == {k \in 1..Len(patterns) : Capture(patterns[k], content).hit}
    IN  IF hits = {} THEN 0 ELSE SetMin(hits)

\* index of the pattern found via the customer-info band, or 0
ViaCustomerInfo(secs, patterns) ==
    LET tagged == {i \in 1..Len(secs) : secs[i].isCustomerInfoSection}
    IN  IF tagged = {} THEN 0 ELSE FirstHit(secs[SetMin(tagged)].content, patterns)

\* index of the pattern found only via the whole-document band, or 0
ViaWholeDocumentOnly(secs, patterns) ==
    IF \A i \in 1..Len(secs) : FirstHit(secs[i].content, patterns) = 0
    THEN FirstHit(CombinedContent(secs, 1), patterns)
    ELSE 0

\* the same pattern finds the same value via the customer-info band in secs and only
\* via the whole-document band in other
SamePatternBothBands(secs, other, patterns) ==
    /\ ViaCustomerInfo(secs, patterns) # 0
    /\ ViaWholeDocumentOnly(other, patterns) = ViaCustomerInfo(secs, patterns)
    /\ findPatternInSections(secs, patterns).match = findPatternInSections(other, patterns).match

\* C13: a value found via the customer-info band has a confidence greater than or equal
\* to the confidence of the same pattern and value found only via the whole-document
\* fallback band (here: the same text divided into another number of sections)
C13_CustomerBandAtLeastFallback ==
    divideOutcome = "returned" =>
        \A patterns \in SearchLists, count \in 1..MaxSectionCount :
            SamePatternBothBands(sections, divideDocumentIntoSections(text, count), patterns)
                => findPatternInSections(sections, patterns).confidence
                     >= findPatternInSections(divideDocumentIntoSections(text, count),
                                              patterns).confidence

C13_Witness ==
    /\ divideOutcome = "returned"
    /\ \E patterns \in SearchLists, count \in 1..MaxSectionCount :
          /\ SamePatternBothBands(sections, divideDocumentIntoSections(text, count), patterns)
          /\ ViaCustomerInfo(sections, patterns) = 2

---------------------------------------------------------------------------
(* Position of the extracted fields *)

\* no pattern of the list captures in a section or in the joined sections
NoPatternHit(secs, patterns) ==
    /\ \A i \in 1..Len(secs) : FirstHit(secs[i].content, patterns) = 0
    /\ FirstHit(CombinedContent(secs, 1), patterns) = 0

\* nothing the name extractor tries finds a name
NoNameFound(secs, patterns) ==
    /\ NoPatternHit(secs, patterns)
    /\ \A i \in 1..Len(secs) :
          /\ secs[i].isCustomerInfoSection => ~TreasuryNameCapture(secs[i].content).hit
          /\ (secs[i].isCustomerInfoSection \/ PctLeq(secs[i].endPercentage, 30))
                => ~TitleCapture(secs[i].content).hit
          /\ ~secs[i].isSignatureSection => ~NameRegexCapture(secs[i].content).hit

\* the result r of an extractor has position -1 exactly when nothing was found; it is
\* then the sentinel of the field with confidence 0, and otherwise it lies in [0, 100]
PositionContract(r, nothingFound, fieldType) ==
    /\ r.position = -1 <=> nothingFound
    /\ r.position = -1 => FieldResult(r.value, r.confidence) = Sentinel(fieldType)
    /\ r.position # -1 => r.position >= 0 /\ r.position <= 100

\* C14: each field extractor returns position -1 exactly when no trained pattern, no
\* built-in pattern and no fallback heuristic matches; the value is then the not-found
\* sentinel and the confidence 0; in every other case the position lies in [0, 100]
C14_PositionContract ==
    extracted.status = "returned" =>
        LET name == getPatterns(initialized, patternRegistry, "customerName")
            amount == getPatterns(initialized, patternRegistry, "refundAmount")
            iban == getPatterns(initialized, patternRegistry, "ibanNumber")
            service == getPatterns(initialized, patternRegistry, "customerServiceNumber")
        IN  /\ PositionContract(extractCustomerName(sections, name),
                                NoNameFound(sections, name \o builtinNamePatterns),
                                "customerName")
            /\ PositionContract(extractRefundAmount(sections, amount),
                                /\ NoPatternHit(sections, amount \o builtinAmountPatterns)
                                /\ \A i \in 1..Len(sections) :
                                      ~NumberCapture(sections[i].content).hit,
                                "refundAmount")
            /\ PositionContract(extractIBAN(sections, iban),
                                /\ NoPatternHit(sections, iban \o builtinIbanPatterns)
                                /\ \A i \in 1..Len(sections) :
                                      ~TestAny(sections[i].content, {IBAN}),
                                "ibanNumber")
            /\ PositionContract(extractServiceNumber(sections, service),
                                /\ NoPatternHit(sections, service \o builtinServicePatterns)
                                /\ \A i \in 1..Len(sections) :
                                      ~TestAny(sections[i].content, {SERVICE}),
                                "customerServiceNumber")

\* a document in which the name is found and the IBAN is not
C14_Witness ==
    /\ extracted.status = "returned"
    /\ extractIBAN(sections, getPatterns(initialized, patternRegistry, "ibanNumber")).position = -1
    /\ extractCustomerName(sections,
                           getPatterns(initialized, patternRegistry, "customerName")).position = 15
    /\ extractRefundAmount(sections,
                           getPatterns(initialized, patternRegistry, "refundAmount")).position = -1

---------------------------------------------------------------------------
(* Names of the signature section *)

\* a name pattern matches in a signature section, and nothing the name extractor tries
\* before its search of the signature sections finds a name
OnlyInSignature(secs, patterns) ==
    /\ \E i \in 1..Len(secs) :
          secs[i].isSignatureSection /\ FirstHit(secs[i].content, patterns) # 0
    /\ \A i \in 1..Len(secs) :
          /\ ~secs[i].isSignatureSection => FirstHit(secs[i].content, patterns) = 0
          /\ secs[i].isCustomerInfoSection => ~TreasuryNameCapture(secs[i].content).hit
          /\ (secs[i].isCustomerInfoSection
                \/ (PctLeq(secs[i].endPercentage, 30) /\ ~secs[i].isSignatureSection))
                => ~TitleCapture(secs[i].content).hit

\* C15: a customer name matched only in the signature band is returned by
\* extractCustomerName with confidence at most 40, and shown with confidence below 50
C15_SignatureNameDistrusted ==
    (/\ extracted.status = "returned"
     /\ OnlyInSignature(sections, getPatterns(initialized, patternRegistry, "customerName")
                                  \o builtinNamePatterns))
        => /\ extractCustomerName(sections, getPatterns(initialized, patternRegistry,
                                                         "customerName")).confidence <= 40
           /\ extracted.customerName.confidence < 50

C15_Witness ==
    /\ extracted.status = "returned"
    /\ OnlyInSignature(sections, getPatterns(initialized, patternRegistry, "customerName")
                                 \o builtinNamePatterns)
    /\ extracted.customerName.value = <<"Karim Abu Taha">>

---------------------------------------------------------------------------
(* Tagging of the sections *)

\* the section matches a customer-info criterion: a header, a keyword, or a name label
\* next to MR., phone or FTTH
CustomerCriterion(sec) ==
    \/ TestAny(sec.content, {HDR})
    \/ TestAny(sec.content, {NAME_MR, SIG_NAME, NAME_LBL}) /\ TestAny(sec.content, {NAME_MR, SERVICE})

\* the section matches a signature keyword or a signature line pattern
SignatureCriterion(sec) ==
    \/ TestAny(sec.content, {OFFICE})
    \/ TestAny(sec.content, {SIG_NAME})

\* C16: when no section with endPercentage <= 40 matches a customer-info criterion,
\* section 0 is tagged as the customer-info section; every returned section list has a
\* customer-info section
C16_CustomerInfoDefault ==
    divideOutcome = "returned" =>
        /\ \E i \in 1..Len(sections) : sections[i].isCustomerInfoSection
        /\ (\A i \in 1..Len(sections) :
               PctLeq(sections[i].endPercentage, 40) => ~CustomerCriterion(sections[i]))
              => sections[1].isCustomerInfoSection

\* a document whose only header lies below the first 40%: section 0 is tagged
C16_Witness ==
    /\ divideOutcome = "returned"
    /\ Len(sections) = MaxSectionCount
    /\ CustomerCriterion(sections[MaxSectionCount])
    /\ \A i \in 1..Len(sections) :
          PctLeq(sections[i].endPercentage, 40) => ~CustomerCriterion(sections[i])
    /\ sections[1].isCustomerInfoSection

\* C17: only a section with startPercentage >= 50 is tagged as the signature section,
\* and when no such section matches a signature keyword or pattern no section is tagged
C17_SignatureBottomOnly ==
    divideOutcome = "returned" =>
        /\ \A i \in 1..Len(sections) :
              sections[i].isSignatureSection
                 => PctGeq(sections[i].startPercentage, 50) /\ SignatureCriterion(sections[i])
        /\ (\A i \in 1..Len(sections) :
               PctGeq(sections[i].startPercentage, 50) => ~SignatureCriterion(sections[i]))
              => \A i \in 1..Len(sections) : ~sections[i].isSignatureSection

\* a signature keyword in the top half only: no section is tagged
C17_Witness ==
    /\ divideOutcome = "returned"
    /\ Len(sections) > 1
    /\ SignatureCriterion(sections[1])
    /\ \A i \in 1..Len(sections) : ~sections[i].isSignatureSection

---------------------------------------------------------------------------
(* Selection of the layout *)

\* the score of template k of the catalog for the positions of the state
TemplateScore(k) ==
    calculateLayoutMatchScore(positions[1], positions[2], positions[3], positions[4],
                              formLayouts[k])

---------------------------------------------------------------------------
(* The correction log *)

\* the step is a completed recordCorrection call that appends the record of its
\* correction to the log and leaves the records of the log as they were
AppendsItsRecord ==
    /\ lastCall'.op = "recordCorrection"
    /\ ~lastCall'.threw
    /\ correctionHistory' =
          Append(correctionHistory,
                 [fieldType |-> lastCall'.args[1].fieldType,
                  originalValue |-> lastCall'.args[1].originalValue,
                  correctedValue |-> lastCall'.args[1].correctedValue,
                  documentId |-> lastCall'.args[1].documentId,
                  confidence |-> 100])

---------------------------------------------------------------------------
(* A correction applied to the record shown *)

\* the step is a handleValueSelect call that applied its correction
AppliesCorrection ==
    /\ lastCall'.op = "handleValueSelect"
    /\ ~lastCall'.threw
    /\ ~lastCall'.args[3]

\* C20: a user correction applied to one field of the record shown replaces the value of
\* the field by the corrected text and sets its confidence to 100, and leaves the other
\* three fields, detectedLayout and layoutConfidence as they were
C20_CorrectionFrame ==
    [][AppliesCorrection =>
          /\ extracted'[lastCall'.args[1]] = FieldResult(<<lastCall'.args[2]>>, 100)
          /\ \A other \in FieldTypes \ {lastCall'.args[1]} : extracted'[other] = extracted[other]
          /\ extracted'.detectedLayout = extracted.detectedLayout
          /\ extracted'.layoutConfidence = extracted.layoutConfidence]_vars

C20_Witness ==
    /\ lastCall.op = "handleValueSelect"
    /\ ~lastCall.threw
    /\ lastCall.args = <<"ibanNumber", "FTTH00516134", FALSE>>
    /\ extracted.ibanNumber = FieldResult(<<"FTTH00516134">>, 100)
    /\ extracted.customerServiceNumber = FieldResult(<<"FTTH00516134">>, 100)
    /\ extracted.customerName = FieldResult(<<"Mohammed Al Motaeri">>, 100)
    /\ extracted.refundAmount = FieldResult(<<"379.50">>, 90)
    /\ extracted.detectedLayout = "Treasury Form"
    /\ extracted.layoutConfidence > 0

---------------------------------------------------------------------------
(* Order of the customer-info criteria *)

\* the sections within the first 40% of the document that match the criterion
TopMatching(secs, Criterion(_)) ==
    {i \in 1..Len(secs) : PctLeq(secs[i].endPercentage, 40) /\ Criterion(secs[i])}

\* an explicit header phrase or a generic customer keyword
HeaderOrKeyword(sec) == TestAny(sec.content, {HDR})

---------------------------------------------------------------------------
(* Order of the bands of the position-aware search *)

\* the sections of band b: 1 customer-info, 2 top, 3 middle, 4 any non-signature,
\* 5 signature
BandSections(secs, b) ==
    {i \in 1..Len(secs) :
        CASE b = 1 -> secs[i].isCustomerInfoSection
          [] b = 2 -> PctLeq(secs[i].endPercentage, 30) /\ ~secs[i].isSignatureSection
          [] b = 3 -> /\ PctGt(secs[i].startPercentage, 30)
                      /\ PctLt(secs[i].endPercentage, 70)
                      /\ ~secs[i].isSignatureSection
          [] b = 4 -> ~secs[i].isSignatureSection
          [] b = 5 -> secs[i].isSignatureSection}

\* the triples (band, section, pattern) whose pattern captures in the section; band 6 is
\* the whole document, written with section 0
\* pattern lists of one, two and three patterns for the search
BandSearchLists ==
    {<<builtinNamePatterns[1]>>,
     <<builtinNamePatterns[7], builtinNamePatterns[1]>>,
     <<builtinNamePatterns[7], builtinNamePatterns[2], builtinNamePatterns[6]>>}

TriplesOf(secs, hits, combinedHits) ==
    UNION {{<<b, i, p[2]>> : p \in {q \in hits : q[1] = i}} :
              <<b, i>> \in {bi \in (1..5) \X (1..Len(secs)) : bi[2] \in BandSections(secs, bi[1])}}
    \cup {<<6, 0, k>> : k \in combinedHits}

MatchingTriples(secs, patterns) ==
    TriplesOf(secs,
              {p \in (1..Len(secs)) \X (1..Len(patterns)) :
                  Capture(patterns[p[2]], secs[p[1]].content).hit},
              {k \in 1..Len(patterns) : Capture(patterns[k], CombinedContent(secs, 1)).hit})

LexLeq(t, u) ==
    \/ t[1] < u[1]
    \/ t[1] = u[1] /\ t[2] < u[2]
    \/ t[1] = u[1] /\ t[2] = u[2] /\ t[3] <= u[3]

FirstTriple(triples) == CHOOSE t \in triples : \A u \in triples : LexLeq(t, u)

\* the result is the match of the first of the triples, or not-found when there is none
IsFirstMatch(result, secs, patterns, triples) ==
    IF triples = {}
    THEN ~result.hit /\ result.position = -1 /\ result.confidence = 0
    ELSE \A t \in {FirstTriple(triples)} :
         LET content == IF t[1] = 6 THEN CombinedContent(secs, 1) ELSE secs[t[2]].content
         IN  /\ result.hit
             /\ result.match = Capture(patterns[t[3]], content).value
             /\ result.sectionType = CASE t[1] = 1 -> "customerInfo"
                                       [] t[1] = 2 -> "top"
                                       [] t[1] = 3 -> "middle"
                                       [] t[1] = 5 -> "signature"
                                       [] OTHER -> "none"

\* C22: findPatternInSections returns the match of the first (band, section, pattern)
\* triple, in lexicographic order, whose pattern yields a non-empty capture; a later band
\* is used only if no pair of an earlier band matches, and not-found is returned only if
\* no triple matches
C22_FirstTripleWins ==
    divideOutcome = "returned" =>
        \A patterns \in BandSearchLists :
            \A result \in {findPatternInSections(sections, patterns)},
               triples \in {MatchingTriples(sections, patterns)} :
                IsFirstMatch(result, sections, patterns, triples)

\* a match found in the middle band: no section of the customer-info and top bands
\* matches a pattern of the list
C22_Witness ==
    /\ divideOutcome = "returned"
    /\ \E patterns \in BandSearchLists :
          /\ MatchingTriples(sections, patterns) # {}
          /\ FirstTriple(MatchingTriples(sections, patterns))[1] = 3
          /\ findPatternInSections(sections, patterns).sectionType = "middle"

---------------------------------------------------------------------------
(* Confidence and position of a match of the position-aware search *)

BandBase  == <<95, 90, 80, 75, 30, 45>>
BandDecay == <<5, 5, 5, 7, 5, 5>>

\* the confidence is base - decay * k for the band and the 0-based pattern index k of
\* the triple; the position is the midpoint of its section in whole percent, or 50
ConfidenceOf(result, secs, t) ==
    /\ result.confidence = BandBase[t[1]] - BandDecay[t[1]] * (t[3] - 1)
    /\ IF t[1] = 6 THEN result.position = 50
       ELSE LET sum == secs[t[2]].startPercentage.num + secs[t[2]].endPercentage.num
                den == 2 * secs[t[2]].startPercentage.den
            IN  result.position * den <= sum /\ sum < (result.position + 1) * den

\* a result with a match has the confidence and the position of the first triple
HasBandConfidence(result, secs, triples) ==
    triples # {} => \A t \in {FirstTriple(triples)} : ConfidenceOf(result, secs, t)

\* C23: the confidence of a match with pattern index k is base - decay x k, with (base,
\* decay) = (95, 5) customer-info, (90, 5) top, (80, 5) middle, (75, 7) any
\* non-signature, (30, 5) signature, (45, 5) whole document; the position is the
\* midpoint of the matched section, or 50 for a whole-document match
C23_BandConfidence ==
    divideOutcome = "returned" =>
        \A patterns \in BandSearchLists :
            \A result \in {findPatternInSections(sections, patterns)},
               triples \in {MatchingTriples(sections, patterns)} :
                HasBandConfidence(result, sections, triples)

\* the second pattern of a list matches in the any-non-signature band: 75 - 7
C23_Witness ==
    /\ divideOutcome = "returned"
    /\ \E patterns \in BandSearchLists :
          /\ MatchingTriples(sections, patterns) # {}
          /\ FirstTriple(MatchingTriples(sections, patterns))[1] = 4
          /\ FirstTriple(MatchingTriples(sections, patterns))[3] = 2
          /\ findPatternInSections(sections, patterns).confidence = 68

---------------------------------------------------------------------------
(* The confidence boost of a well-detected layout *)

\* the confidences of the record are those of the extractors plus the boost, capped at
\* 100; a field that was not found leaves the layout confidence at 70 or less
BoostedBy(data, boost, nameResult, amountResult, ibanResult, serviceResult) ==
    /\ data.customerName.confidence = Min(nameResult.confidence + boost, 100)
    /\ data.refundAmount.confidence = Min(amountResult.confidence + boost, 100)
    /\ data.ibanNumber.confidence = Min(ibanResult.confidence + boost, 100)
    /\ data.customerServiceNumber.confidence = Min(serviceResult.confidence + boost, 100)
    /\ (\E r \in {nameResult, amountResult, ibanResult, serviceResult} : r.position = -1)
          => boost = 0

\* C24: processDocumentText adds 5 to each of the four field confidences, capped at 100,
\* exactly when the layout confidence is greater than 70; when it is 70 or less (in
\* particular when a field was not found) the confidences are those of the extractors
C24_LayoutBoost ==
    extracted.status = "returned" =>
        BoostedBy(extracted, IF extracted.layoutConfidence > 70 * ScoreScale THEN 5 ELSE 0,
                  extractCustomerName(sections, getPatterns(initialized, patternRegistry,
                                                            "customerName")),
                  extractRefundAmount(sections, getPatterns(initialized, patternRegistry,
                                                            "refundAmount")),
                  extractIBAN(sections, getPatterns(initialized, patternRegistry, "ibanNumber")),
                  extractServiceNumber(sections, getPatterns(initialized, patternRegistry,
                                                             "customerServiceNumber")))

\* a layout detected with confidence above 70: the amount gains 5, the name stays at 100
C24_Witness ==
    /\ extracted.status = "returned"
    /\ extracted.layoutConfidence > 70 * ScoreScale
    /\ extracted.customerName.confidence = 100
    /\ extracted.refundAmount.confidence
          = extractRefundAmount(sections, getPatterns(initialized, patternRegistry,
                                                      "refundAmount")).confidence + 5
    /\ extracted.refundAmount.confidence < 100

---------------------------------------------------------------------------
(* The success rates after a correction *)

\* the stored pattern new is the stored pattern old after the update for a correction
\* of the field type from originalValue to correctedValue
RateUpdated(old, new, fieldType, originalValue, correctedValue) ==
    IF old.fieldType = fieldType /\ ValueMatches(old.patternRegex, originalValue)
    THEN /\ 10 * new.successRate
               = 9 * old.successRate
                 + (IF originalValue = correctedValue THEN 10 * RateScale ELSE 0) * 10
         /\ new.usageCount = old.usageCount + 1
         /\ new = [old EXCEPT !.successRate = new.successRate, !.usageCount = new.usageCount]
    ELSE new = old

\* C25: the success-rate update of a correction changes only the patterns of the
\* corrected field type that match originalValue: successRate becomes 0.9 x successRate
\* + (10 if originalValue equals correctedValue, else 0) and usageCount increases by 1;
\* the other patterns, and every patternRegex and priority, are left unchanged
C25_RateUpdateFrame ==
    [][(lastCall'.op = "recordCorrection" /\ ~lastCall'.threw)
          => /\ Len(extractionPatterns') >= Len(extractionPatterns)
             /\ \A i \in 1..Len(extractionPatterns) :
                   RateUpdated(extractionPatterns[i], extractionPatterns'[i],
                               lastCall'.args[1].fieldType, lastCall'.args[1].originalValue,
                               lastCall'.args[1].correctedValue)]_vars

\* a correction of the name found by the pattern for names with Al or El: its rate goes
\* from 85 to 76.5 and its usage count from 5 to 6; the seeded name patterns are as before
C25_Witness ==
    /\ lastCall.op = "recordCorrection"
    /\ ~lastCall.threw
    /\ lastCall.args[1].originalValue # lastCall.args[1].correctedValue
    /\ \E i \in 1..Len(extractionPatterns) :
          /\ extractionPatterns[i].patternRegex = treasuryPatterns[3].patternRegex
          /\ 10 * extractionPatterns[i].successRate = 765 * RateScale
          /\ extractionPatterns[i].usageCount = 6
    /\ extractionPatterns[1].successRate = initialExtractionPatterns[1].successRate
    /\ extractionPatterns[1].usageCount = initialExtractionPatterns[1].usageCount

---------------------------------------------------------------------------
(* The patterns learned from one context *)

\* C26: learnNewPattern derives its candidate from the first line of context that
\* contains correctValue only, so one call inserts at most one new pattern
C26_AtMostOneLearned ==
    lastCall.op = "learnNewPattern" => lastCall.inserted <= 1

---------------------------------------------------------------------------
(* The treasury patterns in the store *)

\* C29: the treasury customer-name patterns are inserted at most once: after any number
\* of processDocumentText calls the store holds at most one pattern for each treasury
\* patternRegex
C29_TreasuryPatternsOnce ==
    \A k \in 1..Len(treasuryPatterns) :
        CountByRegex(Current, treasuryPatterns[k].patternRegex) <= 1

---------------------------------------------------------------------------
(* Invalid patterns in a persisted registry *)

\* the stored patterns of a field type that compile
ValidStored(fieldType) ==
    {i \in 1..Len(extractionPatterns) :
        /\ extractionPatterns[i].fieldType = fieldType
        /\ extractionPatterns[i].patternRegex \notin InvalidSources}

\* C21: when the registry is loaded into the in-memory map, the active list of each
\* field type holds no pattern made from an invalid patternRegex, and holds every valid
\* stored pattern of the type, once for each time it is stored and in priority order
C21_InvalidExcluded ==
    initialized =>
        \A ft \in FieldTypes :
            LET active == patternRegistry[ft]
            IN  /\ Len(active) = Cardinality(ValidStored(ft))
                /\ \A k \in 1..Len(active) :
                      /\ active[k] # Null
                      /\ active[k].source \notin InvalidSources
                /\ \A i \in ValidStored(ft) :
                      Cardinality({k \in 1..Len(active) :
                                      active[k].source = extractionPatterns[i].patternRegex})
                      = Cardinality({j \in ValidStored(ft) :
                                        extractionPatterns[j].patternRegex
                                        = extractionPatterns[i].patternRegex})
                /\ \A k1, k2 \in 1..Len(active) :
                      k1 < k2 =>
                          \E i1, i2 \in ValidStored(ft) :
                              /\ extractionPatterns[i1].patternRegex = active[k1].source
                              /\ extractionPatterns[i2].patternRegex = active[k2].source
                              /\ extractionPatterns[i1].priority <= extractionPatterns[i2].priority

\* the service is initialized on a store that holds an invalid pattern for the service
\* number before a valid one, and a valid pattern for the name: both valid ones are active
C21_Witness ==
    /\ initialized
    /\ lastCall.op = "initialize"
    /\ Len(extractionPatterns) = 3
    /\ extractionPatterns[1].patternRegex \in InvalidSources
    /\ extractionPatterns[2].fieldType = "customerServiceNumber"
    /\ extractionPatterns[2].patternRegex \notin InvalidSources
    /\ extractionPatterns[3].fieldType = "customerName"
    /\ Len(patternRegistry["customerServiceNumber"]) = 1
    /\ Len(patternRegistry["customerName"]) = 1

---------------------------------------------------------------------------
(* Concurrent initialize calls *)

\* C28: under any interleaving of concurrent initialize calls on an empty store the
\* default patterns and the default training examples are inserted exactly once, and
\* no caller finds the service initialized before the in-memory map has been loaded
C28_SeededOnce ==
    /\ trainingExamples <= initialTrainingData
    /\ \A k \in 1..Len(initialExtractionPatterns) :
          CountByRegex(Current, initialExtractionPatterns[k].patternRegex) <= 1
    /\ initialized =>
          /\ trainingExamples = initialTrainingData
          /\ Len(extractionPatterns) = Len(initialExtractionPatterns)
          /\ patternRegistry = LoadedRegistry(extractionPatterns)

---------------------------------------------------------------------------
(* Documents after their deletion *)

\* C30: after deleteDocument(id) has completed, getDocument(id) returns null and
\* documentExists(id) returns false; and getDocument(id) never returns the file of a
\* document stored under another id
C30_DeletedIsGone ==
    [][/\ (lastCall.op = "deleteDocument" /\ lastCall'.op = "getDocument"
             /\ lastCall'.args[1] = lastCall.args[1])
          => lastCall'.args[2] = NoFile
       /\ (lastCall.op = "deleteDocument" /\ lastCall'.op = "documentExists"
             /\ lastCall'.args[1] = lastCall.args[1])
          => lastCall'.args[2] = FALSE
       /\ (lastCall'.op = "getDocument" /\ lastCall'.args[2] # NoFile)
          => lastCall'.args[2] = lastCall'.args[1][2]]_vars

=========================================================================
